---- MODULE Spec2Model ----
(***************************************************************************)
(* pcbgen: Gerber text -> commands (gerber/parse.rs) -> board outline ->   *)
(* extruded mesh (lib.rs, build_edge_cuts_mesh).                           *)
(*                                                                         *)
(* Numbers.  An f64 that comes from decimal text is held as the exact      *)
(* decimal it denotes, [m |-> mantissa, e |-> decimal places], normalised  *)
(* (no trailing zero in m, zero is [m |-> 0, e |-> 0]).  For the short     *)
(* tokens of the model two such decimals are equal exactly when their f64  *)
(* values are equal, and sums/differences of the small integers used for   *)
(* arc geometry are exact in f64.  A coordinate computed with cos/sin is   *)
(* kept as the expression that computes it (ArcCoord).                     *)
(***************************************************************************)
EXTENDS Integers, Sequences, FiniteSets, TLC

VARIABLES
    entry,           \* "build": build_edge_cuts_mesh called on its own;
                     \* "parse": parse_gerber called, its output fed to it
    commands,        \* the &[Command] given to build_edge_cuts_mesh
    thickness,       \* the Option<f64> argument
    ci,              \* number of commands the first pass has consumed
    phase,           \* "parse" | "loop" | "closed" | "done": position in the run
    outline_points,  \* Vec<Point>
    current_x,
    current_y,
    current_mode,    \* InterpolationMode tracked by the builder
    start_point,     \* Option<Point>
    result,          \* "none" | "Ok" | "Err"
    vertices,        \* Vec<Vertex> of the returned mesh
    faces,           \* Vec<Face> of the returned mesh (0-based indices)
    content,         \* parse_gerber: the lines of the text, content.lines()
    li,              \* parse_gerber: number of lines consumed
    parser_x,        \* parse_gerber: current_x
    parser_y,        \* parse_gerber: current_y
    integer_digits,
    decimal_digits,
    current_interpolation,
    parse_result,    \* "none" | "Ok": what parse_gerber has returned
    raw_token,       \* parse_coordinate called on its own: its coord_str
    decoded,         \* <<>> before the call, <<its Result>> after it
    input_dir,       \* process_gerber_files: what the input path is
    entries,         \* what fs::read_dir yields, in its order
    ei,              \* directory entries the first pass has consumed
    layer_files,     \* the five Option<PathBuf> of the first pass
    meshes,          \* pcb_model.meshes
    pc,              \* position in process_gerber_files
    process_result,  \* "none" | "Ok" | "Err" | "panic"
    file_path,       \* identify_layer_type called on its own: its file name
    identified,      \* <<>> before the call, <<its LayerType>> after it
    colors,          \* export_to_obj: its colors parameter
    mi,              \* export_to_obj: meshes of model.meshes written
    global_vertex_index,
    obj_lines,       \* the lines written to the OBJ file
    export_result    \* "none" | "Ok" | "Err"

builderVars == <<ci, outline_points, current_x, current_y, current_mode,
                 start_point, result, vertices, faces>>

parserVars == <<content, li, parser_x, parser_y, integer_digits, decimal_digits,
                current_interpolation, parse_result>>

coordVars == <<raw_token, decoded>>

processVars == <<input_dir, entries, ei, layer_files, meshes, pc, process_result>>

toolVars == <<file_path, identified, colors, mi, global_vertex_index, obj_lines,
              export_result>>

vars == <<entry, commands, thickness, phase, builderVars, parserVars, coordVars,
          processVars, toolVars>>

----------------------------------------------------------------------------
(* Bounds of the model *)

MaxCmds == 3     \* commands given to build_edge_cuts_mesh on its own
MaxArcs == 1     \* ArcDraw commands among them

----------------------------------------------------------------------------
(* Decimal numbers *)

RECURSIVE Pow10(_)
Pow10(n) == IF n = 0 THEN 1 ELSE 10 * Pow10(n - 1)

RECURSIVE Norm(_, _)
Norm(m, e) ==
    IF m = 0 THEN [m |-> 0, e |-> 0]
    ELSE IF e > 0 /\ m % 10 = 0 THEN Norm(m \div 10, e - 1)
    ELSE [m |-> m, e |-> e]

Int2Num(i) == [m |-> i, e |-> 0]

MaxE(a, b) == IF a.e >= b.e THEN a.e ELSE b.e

Add(a, b) == Norm(a.m * Pow10(MaxE(a, b) - a.e) + b.m * Pow10(MaxE(a, b) - b.e), MaxE(a, b))

Sub(a, b) == Norm(a.m * Pow10(MaxE(a, b) - a.e) - b.m * Pow10(MaxE(a, b) - b.e), MaxE(a, b))

Mul(a, b) == Norm(a.m * b.m, a.e + b.e)

Sign(a) == IF a.m > 0 THEN 1 ELSE IF a.m < 0 THEN -1 ELSE 0

Zero == Int2Num(0)
One == Int2Num(1)

----------------------------------------------------------------------------
(* Option, Point, Command *)

None == [some |-> FALSE]
Some(v) == [some |-> TRUE, val |-> v]

Point(x, y) == [x |-> x, y |-> y]

Move(p) == [kind |-> "Move", point |-> p]
Draw(p) == [kind |-> "Draw", point |-> p]
Flash(p) == [kind |-> "Flash", point |-> p]
ArcDraw(p, c) == [kind |-> "ArcDraw", end_point |-> p, center_offset |-> c]
SetInterpolationMode(mode) == [kind |-> "SetInterpolationMode", mode |-> mode]
FormatSpecification(i, d) ==
    [kind |-> "FormatSpecification", integer_digits |-> i, decimal_digits |-> d]
SelectAperture(code) == [kind |-> "SelectAperture", code |-> code]
SetUnitsMM == [kind |-> "SetUnitsMM"]
SetUnitsInch == [kind |-> "SetUnitsInch"]
BeginRegion == [kind |-> "BeginRegion"]
EndRegion == [kind |-> "EndRegion"]
EndOfFile == [kind |-> "EndOfFile"]

InterpolationMode == {"Linear", "ClockwiseCircular", "CounterClockwiseCircular"}

DefaultThickness == [m |-> 16, e |-> 1]

POINTS_PER_ARC == 16

----------------------------------------------------------------------------
(* Arc geometry of build_edge_cuts_mesh (lib.rs 294-332) *)

IsNum(v) == "m" \in DOMAIN v

Vec(x, y) == [x |-> x, y |-> y]

Cross(v, w) == Sub(Mul(v.x, w.y), Mul(v.y, w.x))

\* Position of atan2(v.y, v.x) in (-pi, pi]: 0 for (-pi,0), 1 for 0,
\* 2 for (0,pi), 3 for pi.  atan2(0, 0) = 0.
AngleClass(v) ==
    IF Sign(v.y) < 0 THEN 0
    ELSE IF Sign(v.y) > 0 THEN 2
    ELSE IF Sign(v.x) >= 0 THEN 1 ELSE 3

\* Sign of atan2(w) - atan2(v), the raw angle_diff = end_angle - start_angle.
AngleDiffSign(v, w) ==
    IF AngleClass(v) # AngleClass(w)
    THEN (IF AngleClass(w) > AngleClass(v) THEN 1 ELSE -1)
    ELSE IF AngleClass(v) \in {1, 3} THEN 0
    ELSE Sign(Cross(v, w))

\* a clockwise sweep of 0 turned into a full circle
AdjustTurnsFullCircle(mode, rawSign) ==
    IF mode = "ClockwiseCircular" /\ rawSign >= 0 THEN -1
    ELSE IF mode = "CounterClockwiseCircular" /\ rawSign < 0 THEN 1
    ELSE 0

\* Full turns added to angle_diff by the match on current_mode (lines 312-324).
AdjustTurns(mode, rawSign) ==
    IF mode = "ClockwiseCircular" /\ rawSign > 0 THEN -1
    ELSE IF mode = "CounterClockwiseCircular" /\ rawSign < 0 THEN 1
    ELSE 0

\* Sign of angle_diff after the adjustment: raw diff lies in (-2pi, 2pi).
SweepSign(mode, rawSign) ==
    IF AdjustTurns(mode, rawSign) = -1 THEN -1
    ELSE IF AdjustTurns(mode, rawSign) = 1 THEN 1
    ELSE rawSign

\* center + radius * f(start_angle + angle_diff * i/16), f = cos or sin.
\* sv = start - center gives radius and start_angle, ev = end - center the
\* end_angle.  With radius 0 the product is 0 and the sum is the centre; with
\* angle_diff = 0 every i gives the same angle, start_angle.
ArcCoord(f, c, sv, ev, turns, still, i) ==
    IF sv = Vec(Zero, Zero) THEN c
    ELSE [f |-> f, c |-> c, sv |-> sv, ev |-> ev, turns |-> turns,
          i |-> IF still THEN 0 ELSE i]

\* the loop stopping one short: i in 1..POINTS_PER_ARC
ArcPointsOpen(sx, sy, cmd, mode) ==
    LET center_x == Add(sx, cmd.center_offset.x)
        center_y == Add(sy, cmd.center_offset.y)
        sv == Vec(Sub(sx, center_x), Sub(sy, center_y))
        ev == Vec(Sub(cmd.end_point.x, center_x), Sub(cmd.end_point.y, center_y))
        rawSign == AngleDiffSign(sv, ev)
    IN  LET turns == AdjustTurns(mode, rawSign)
            still == SweepSign(mode, rawSign) = 0
        IN  [i \in 1..(POINTS_PER_ARC - 1) |->
                Point(ArcCoord("cos", center_x, sv, ev, turns, still, i),
                      ArcCoord("sin", center_y, sv, ev, turns, still, i))]

\* for i in 1..=POINTS_PER_ARC { outline_points.push(Point { x, y }) }
ArcPoints(sx, sy, cmd, mode) ==
    LET center_x == Add(sx, cmd.center_offset.x)
        center_y == Add(sy, cmd.center_offset.y)
        sv == Vec(Sub(sx, center_x), Sub(sy, center_y))
        ev == Vec(Sub(cmd.end_point.x, center_x), Sub(cmd.end_point.y, center_y))
        rawSign == AngleDiffSign(sv, ev)
    IN  LET turns == AdjustTurns(mode, rawSign)
            still == SweepSign(mode, rawSign) = 0
        IN  [i \in 1..POINTS_PER_ARC |->
                Point(ArcCoord("cos", center_x, sv, ev, turns, still, i),
                      ArcCoord("sin", center_y, sv, ev, turns, still, i))]

----------------------------------------------------------------------------
(* Extrusion (lib.rs 354-435) *)

Point3D(x, y, z) == [x |-> x, y |-> y, z |-> z]

Vertex(position, normal) == [position |-> position, normal |-> normal]

pcb_thickness == IF thickness.some THEN thickness.val ELSE DefaultThickness

\* bottom vertex pushed before the top vertex
RECURSIVE ExtrudeVerticesBottomFirst(_, _)
ExtrudeVerticesBottomFirst(points, t) ==
    IF points = <<>> THEN <<>>
    ELSE << Vertex(Point3D(Head(points).x, Head(points).y, Zero),
                   Point3D(Zero, Zero, Int2Num(-1))),
            Vertex(Point3D(Head(points).x, Head(points).y, t),
                   Point3D(Zero, Zero, One)) >>
         \o ExtrudeVerticesBottomFirst(Tail(points), t)

\* for point in &outline_points { push top; push bottom }
RECURSIVE ExtrudeVertices(_, _)
ExtrudeVertices(points, t) ==
    IF points = <<>> THEN <<>>
    ELSE << Vertex(Point3D(Head(points).x, Head(points).y, t),
                   Point3D(Zero, Zero, One)),
            Vertex(Point3D(Head(points).x, Head(points).y, Zero),
                   Point3D(Zero, Zero, Int2Num(-1))) >>
         \o ExtrudeVertices(Tail(points), t)

\* for i in 0..num_points { top_face.vertices.push(i * 2) }
RECURSIVE TopFace(_, _)
TopFace(i, num_points) ==
    IF i >= num_points THEN <<>>
    ELSE <<i * 2>> \o TopFace(i + 1, num_points)

\* bottom face listed in point order (.rev() dropped)
RECURSIVE BottomFaceForward(_, _)
BottomFaceForward(i, num_points) ==
    IF i >= num_points THEN <<>>
    ELSE <<i * 2 + 1>> \o BottomFaceForward(i + 1, num_points)

BottomFaceNotReversed(num_points) == BottomFaceForward(0, num_points)

\* for i in (0..num_points).rev() { bottom_face.vertices.push(i * 2 + 1) }
RECURSIVE BottomFace(_)
BottomFace(i) ==
    IF i = 0 THEN <<>>
    ELSE <<(i - 1) * 2 + 1>> \o BottomFace(i - 1)

\* side quad wound the other way round
QuadFlipped(i, num_points) ==
    LET next_i == (i + 1) % num_points
    IN  <<i * 2, next_i * 2, next_i * 2 + 1, i * 2 + 1>>

Quad(i, num_points) ==
    LET next_i == (i + 1) % num_points
    IN  <<i * 2, i * 2 + 1, next_i * 2 + 1, next_i * 2>>

\* side loop stopping one short: no quad from the last point to the first
RECURSIVE SideFacesOpen(_, _)
SideFacesOpen(i, num_points) ==
    IF i >= num_points - 1 THEN <<>>
    ELSE <<Quad(i, num_points)>> \o SideFacesOpen(i + 1, num_points)

\* for i in 0..num_points { faces.push(quad) }
RECURSIVE SideFaces(_, _)
SideFaces(i, num_points) ==
    IF i >= num_points THEN <<>>
    ELSE <<Quad(i, num_points)>> \o SideFaces(i + 1, num_points)

ExtrudeFaces(num_points) ==
    <<TopFace(0, num_points), BottomFace(num_points)>> \o SideFaces(0, num_points)

----------------------------------------------------------------------------
(* Text: a &str is the sequence of its characters; indices are 0-based as   *)
(* in the code, Slice(s, a, b) is &s[a..b].                                 *)

Digit == {"0", "1", "2", "3", "4", "5", "6", "7", "8", "9"}

DigitVal(c) ==
    CASE c = "0" -> 0 [] c = "1" -> 1 [] c = "2" -> 2 [] c = "3" -> 3
      [] c = "4" -> 4 [] c = "5" -> 5 [] c = "6" -> 6 [] c = "7" -> 7
      [] c = "8" -> 8 [] c = "9" -> 9

Whitespace == {" ", "\t"}

Slice(s, a, b) == SubSeq(s, a + 1, b)

StartsWith(s, prefix) ==
    Len(s) >= Len(prefix) /\ SubSeq(s, 1, Len(prefix)) = prefix

EndsWith(s, suffix) ==
    Len(s) >= Len(suffix) /\ SubSeq(s, Len(s) - Len(suffix) + 1, Len(s)) = suffix

Contains(s, pat) ==
    \E k \in 1..(Len(s) - Len(pat) + 1) : SubSeq(s, k, k + Len(pat) - 1) = pat

\* str::find(char): Some(index of the first occurrence) or None
Find(s, c) ==
    IF \E k \in 1..Len(s) : s[k] = c
    THEN Some((CHOOSE k \in 1..Len(s) : s[k] = c /\ \A h \in 1..(k - 1) : s[h] # c) - 1)
    ELSE None

RECURSIVE TrimStart(_)
TrimStart(s) ==
    IF s # <<>> /\ Head(s) \in Whitespace THEN TrimStart(Tail(s)) ELSE s

RECURSIVE TrimEnd(_)
TrimEnd(s) ==
    IF s # <<>> /\ s[Len(s)] \in Whitespace THEN TrimEnd(SubSeq(s, 1, Len(s) - 1)) ELSE s

Trim(s) == TrimEnd(TrimStart(s))

IsDigits(s) == \A k \in 1..Len(s) : s[k] \in Digit

RECURSIVE DigitsVal(_)
DigitsVal(s) ==
    IF s = <<>> THEN 0 ELSE 10 * DigitsVal(SubSeq(s, 1, Len(s) - 1)) + DigitVal(s[Len(s)])

RECURSIVE StripZeros(_)
StripZeros(s) == IF s # <<>> /\ Head(s) = "0" THEN StripZeros(Tail(s)) ELSE s

\* a < b for digit strings of the same length
RECURSIVE DigitsLess(_, _)
DigitsLess(a, b) ==
    IF a = <<>> THEN FALSE
    ELSE IF DigitVal(Head(a)) # DigitVal(Head(b)) THEN DigitVal(Head(a)) < DigitVal(Head(b))
    ELSE DigitsLess(Tail(a), Tail(b))

U32Max == <<"4", "2", "9", "4", "9", "6", "7", "2", "9", "5">>

\* the digits denote a number above u32::MAX: parse::<u32> gives Err(PosOverflow)
OverflowsU32(digits) ==
    LET d == StripZeros(digits)
    IN  Len(d) > Len(U32Max) \/ (Len(d) = Len(U32Max) /\ DigitsLess(U32Max, d))

\* str::parse::<u32>: an optional '+', then one or more digits, Err above
\* u32::MAX.  (The values of the model's texts are below 2^31 or overflow.)
ParseU32(s) ==
    LET body == IF s # <<>> /\ Head(s) = "+" THEN Tail(s) ELSE s
    IN  IF body # <<>> /\ IsDigits(body) /\ ~OverflowsU32(body)
        THEN Some(DigitsVal(body))
        ELSE None

----------------------------------------------------------------------------
(* f64 from long decimal text.  A natural number beyond the machine word   *)
(* is a sequence of limbs of four decimal digits, least significant first, *)
(* without high zeros.  The operators keep the nesting of their evaluation *)
(* shallow: a quantifier or a table where a loop would do the same.        *)

BigBase == 10000

BigTrim(a) ==
    IF \A i \in 1..Len(a) : a[i] = 0 THEN <<>>
    ELSE SubSeq(a, 1, CHOOSE i \in 1..Len(a) :
                          a[i] # 0 /\ \A j \in (i + 1)..Len(a) : a[j] = 0)

RECURSIVE BigMulAddLimbs(_, _, _)
BigMulAddLimbs(a, k, c) ==
    IF a = <<>>
    THEN (IF c = 0 THEN <<>> ELSE <<c % BigBase>> \o BigMulAddLimbs(<<>>, k, c \div BigBase))
    ELSE LET t == Head(a) * k + c
         IN  <<t % BigBase>> \o BigMulAddLimbs(Tail(a), k, t \div BigBase)

\* a * k + c for k, c <= 65536
BigMulAdd(a, k, c) == BigTrim(BigMulAddLimbs(a, k, c))

BigOfDigits(s) ==
    LET n == (Len(s) + 3) \div 4
    IN  BigTrim([i \in 1..n |->
                    DigitsVal(SubSeq(s, IF Len(s) - 4 * i + 1 < 1 THEN 1
                                        ELSE Len(s) - 4 * i + 1,
                                     Len(s) - 4 * (i - 1)))])

\* a * 2^n, sixteen bits at a time
RECURSIVE BigTimesPow2(_, _)
BigTimesPow2(a, n) ==
    LET PowersOfTwo == <<1, 2, 4, 8, 16, 32, 64, 128, 256, 512, 1024, 2048, 4096,
                         8192, 16384, 32768, 65536>>
    IN  IF n > 16 THEN BigMulAdd(BigTimesPow2(a, n - 16), PowersOfTwo[17], 0)
        ELSE BigMulAdd(a, PowersOfTwo[n + 1], 0)

BigLess(a, b) ==
    \/ Len(a) < Len(b)
    \/ /\ Len(a) = Len(b)
       /\ \E i \in 1..Len(a) : a[i] < b[i] /\ \A j \in (i + 1)..Len(a) : a[j] = b[j]

\* a - b - borrow, limb by limb, for a >= b + borrow
RECURSIVE BigSubLimbs(_, _, _)
BigSubLimbs(a, b, borrow) ==
    IF a = <<>> THEN <<>>
    ELSE LET t == Head(a) - (IF b = <<>> THEN 0 ELSE Head(b)) - borrow
         IN  <<(t + BigBase) % BigBase>>
             \o BigSubLimbs(Tail(a), IF b = <<>> THEN <<>> ELSE Tail(b),
                            IF t < 0 THEN 1 ELSE 0)

\* long division in radix 128 of rem < den * 128^(i + 1) by den: the digit g
\* of weight 128^i, g * d <= rem < (g + 1) * d, is produced here; q holds the
\* digits above it
RECURSIVE BigDivide(_, _, _, _)
BigDivide(rem, den, i, q) ==
    LET QuotientDigit(d) == CHOOSE h \in 0..127 :
                        /\ ~BigLess(rem, BigMulAdd(d, h, 0))
                        /\ BigLess(rem, BigMulAdd(d, h + 1, 0))
        Continue(r2, q2) == IF i = 0 THEN [q |-> q2, rem |-> r2]
                            ELSE BigDivide(r2, den, i - 1, q2)
        Subtract(d, g) == Continue(BigTrim(BigSubLimbs(rem, BigMulAdd(d, g, 0), 0)),
                                   BigMulAdd(q, 128, g))
        AtWeight(d) == Subtract(d, QuotientDigit(d))
    IN  AtWeight(BigTimesPow2(den, 7 * i))

\* The f64 nearest to num / den for num, den > 0, ties to even: the 53-bit
\* mantissa q and the exponent k of the value q / 2^k.  (The values of the
\* model's texts have binary exponents within -64..64, far inside the normal
\* range of f64.)
RoundToF64(num, den) ==
    LET MantissaBits == 53
        \* num / den >= 2^j
        AtLeastPow2(j) ==
            IF j >= 0 THEN ~BigLess(num, BigTimesPow2(den, j))
            ELSE ~BigLess(BigTimesPow2(num, -j), den)
        \* a mantissa of 54 bits after rounding up is the next power of two
        Normal(q, k) ==
            IF q = BigTimesPow2(<<1>>, MantissaBits)
            THEN [q |-> BigTimesPow2(<<1>>, MantissaBits - 1), k |-> k - 1]
            ELSE [q |-> q, k |-> k]
        \* the quotient d.q with remainder d.rem of a division by scaled_den
        Nearest(d, scaled_den, k) ==
            Normal(IF \/ BigLess(scaled_den, BigMulAdd(d.rem, 2, 0))
                      \/ (BigMulAdd(d.rem, 2, 0) = scaled_den /\ d.q[1] % 2 = 1)
                   THEN BigMulAdd(d.q, 1, 1)
                   ELSE d.q,
                   k)
        Divided(scaled_num, scaled_den, k) ==
            Nearest(BigDivide(scaled_num, scaled_den, 7, <<>>), scaled_den, k)
        Scaled(shift) ==
            Divided(IF shift > 0 THEN BigTimesPow2(num, shift) ELSE num,
                    IF shift < 0 THEN BigTimesPow2(den, -shift) ELSE den,
                    shift)
    IN  \* the shift that brings the quotient into [2^52, 2^53): AtLeastPow2
        \* holds of -64..j for the j with 2^j <= num / den < 2^(j + 1)
        Scaled((MantissaBits - 1)
               - (Cardinality({j \in -64..64 : AtLeastPow2(j)}) - 65))

\* str::parse::<f64> on decimal text: an optional sign, digits with an
\* optional '.', at least one digit.  (Exponents and inf/nan spellings use
\* characters outside the text of the model.)  Up to 9 significant
\* digits the value is held as the decimal itself; a longer text is rounded
\* to the nearest f64 and held as [neg, q, k], the value (-1)^neg * q / 2^k.
ParseF64(s) ==
    LET signed == s # <<>> /\ Head(s) \in {"-", "+"}
        body == IF signed THEN Tail(s) ELSE s
        dot == Find(body, ".")
        int_part == IF dot.some THEN Slice(body, 0, dot.val) ELSE body
        frac_part == IF dot.some THEN Slice(body, dot.val + 1, Len(body)) ELSE <<>>
        negative == signed /\ Head(s) = "-"
        digits == StripZeros(int_part \o frac_part)
    IN  IF IsDigits(int_part) /\ IsDigits(frac_part)
           /\ Len(int_part) + Len(frac_part) >= 1
        THEN IF Len(digits) <= 9
             THEN Some(Norm((IF negative THEN -1 ELSE 1) * DigitsVal(digits),
                            Len(frac_part)))
             ELSE Some([neg |-> negative]
                       @@ RoundToF64(BigOfDigits(digits),
                                     BigOfDigits(<<"1">> \o [i \in 1..Len(frac_part) |-> "0"])))
        ELSE None

----------------------------------------------------------------------------
(* gerber/parse.rs *)

RECURSIVE PadZeros(_, _)
PadZeros(value_str, total_digits) ==
    IF Len(value_str) < total_digits
    THEN PadZeros(<<"0">> \o value_str, total_digits)
    ELSE value_str

\* decimal point placed after the integer digits counted from the right
parse_coordinate_swapped(coord_str, int_digits, dec_digits) ==
    IF Contains(coord_str, <<".">>)
    THEN ParseF64(coord_str)
    ELSE LET total_digits == int_digits + dec_digits
             is_negative == StartsWith(coord_str, <<"-">>)
             unsigned == IF is_negative THEN Tail(coord_str) ELSE coord_str
             padded == PadZeros(unsigned, total_digits)
             decimal_pos == Len(padded) - int_digits
             pointed == IF dec_digits > 0
                        THEN Slice(padded, 0, decimal_pos) \o <<".">>
                             \o Slice(padded, decimal_pos, Len(padded))
                        ELSE padded
             value_str == IF is_negative THEN <<"-">> \o pointed ELSE pointed
         IN  ParseF64(value_str)

\* zeros appended after the token instead of before it
parse_coordinate_padright(coord_str, int_digits, dec_digits) ==
    IF Contains(coord_str, <<".">>)
    THEN ParseF64(coord_str)
    ELSE LET total_digits == int_digits + dec_digits
             is_negative == StartsWith(coord_str, <<"-">>)
             unsigned == IF is_negative THEN Tail(coord_str) ELSE coord_str
             padded == unsigned \o SubSeq(PadZeros(unsigned, total_digits), 1,
                                          total_digits - Len(unsigned))
             decimal_pos == Len(padded) - dec_digits
             pointed == IF dec_digits > 0
                        THEN Slice(padded, 0, decimal_pos) \o <<".">>
                             \o Slice(padded, decimal_pos, Len(padded))
                        ELSE padded
             value_str == IF is_negative THEN <<"-">> \o pointed ELSE pointed
         IN  ParseF64(value_str)

\* the decimal point placed after integer_digits digits
parse_coordinate_leftpoint(coord_str, int_digits, dec_digits) ==
    IF Contains(coord_str, <<".">>)
    THEN ParseF64(coord_str)
    ELSE LET total_digits == int_digits + dec_digits
             is_negative == StartsWith(coord_str, <<"-">>)
             unsigned == IF is_negative THEN Tail(coord_str) ELSE coord_str
             padded == PadZeros(unsigned, total_digits)
             decimal_pos == int_digits
             pointed == IF dec_digits > 0
                        THEN Slice(padded, 0, decimal_pos) \o <<".">>
                             \o Slice(padded, decimal_pos, Len(padded))
                        ELSE padded
             value_str == IF is_negative THEN <<"-">> \o pointed ELSE pointed
         IN  ParseF64(value_str)

\* parse_coordinate (lines 408-444): Some(value) for Ok, None for Err
parse_coordinate(coord_str, int_digits, dec_digits) ==
    IF Contains(coord_str, <<".">>)
    THEN ParseF64(coord_str)
    ELSE LET total_digits == int_digits + dec_digits
             is_negative == StartsWith(coord_str, <<"-">>)
             unsigned == IF is_negative THEN Tail(coord_str) ELSE coord_str
             padded == PadZeros(unsigned, total_digits)
             decimal_pos == Len(padded) - dec_digits
             pointed == IF dec_digits > 0
                        THEN Slice(padded, 0, decimal_pos) \o <<".">>
                             \o Slice(padded, decimal_pos, Len(padded))
                        ELSE padded
             value_str == IF is_negative THEN <<"-">> \o pointed ELSE pointed
         IN  ParseF64(value_str)

\* find_next_letter (lines 385-392)
RECURSIVE find_next_letter(_, _)
find_next_letter(input, start) ==
    IF start >= Len(input) THEN Len(input)
    ELSE IF input[start + 1] \in {"X", "Y", "I", "J", "D", "*"} THEN start
    ELSE find_next_letter(input, start + 1)

\* the digits taken from the Y pair instead of the X pair
parse_format_spec_ypair(input) ==
    IF ~StartsWith(input, <<"%", "F", "S", "L", "A", "X">>) THEN None
    ELSE LET rest == Slice(input, 6, Len(input))
         IN  IF ~EndsWith(rest, <<"*", "%">>) THEN None
             ELSE LET format_str == Slice(rest, 0, Len(rest) - 2)
                      pos == Find(format_str, "Y")
                  IN  IF ~pos.some THEN None
                      ELSE LET y_format == Slice(format_str, pos.val + 1, Len(format_str))
                           IN  IF Len(y_format) = 2 /\ y_format[1] \in Digit
                                  /\ y_format[2] \in Digit
                               THEN Some(<<DigitVal(y_format[1]), DigitVal(y_format[2])>>)
                               ELSE None

\* parse_format_spec (lines 113-133): Some(<<integer, decimal>>) or None
parse_format_spec(input) ==
    IF ~StartsWith(input, <<"%", "F", "S", "L", "A", "X">>) THEN None
    ELSE LET rest == Slice(input, 6, Len(input))
         IN  IF ~EndsWith(rest, <<"*", "%">>) THEN None
             ELSE LET format_str == Slice(rest, 0, Len(rest) - 2)
                      pos == Find(format_str, "Y")
                  IN  IF ~pos.some THEN None
                      ELSE LET x_format == Slice(format_str, 0, pos.val)
                           IN  IF Len(x_format) = 2 /\ x_format[1] \in Digit
                                  /\ x_format[2] \in Digit
                               THEN Some(<<DigitVal(x_format[1]), DigitVal(x_format[2])>>)
                               ELSE None

\* parse_units_mm, parse_units_inch (lines 139-149): nom tag = prefix match
parse_units_mm(input) == StartsWith(input, <<"%", "M", "O", "M", "M", "*", "%">>)

parse_units_inch(input) == StartsWith(input, <<"%", "M", "O", "I", "N", "*", "%">>)

DefineAperture(code, aperture) ==
    [kind |-> "DefineAperture", code |-> code, aperture |-> aperture]

Circle(diameter) == [shape |-> "Circle", diameter |-> diameter]

Rectangle(width, height) == [shape |-> "Rectangle", width |-> width, height |-> height]

\* the circle attempt of parse_aperture_definition (lines 164-179)
CircleAperture(aperture_def) ==
    LET pos == Find(aperture_def, "C") IN
    IF ~pos.some THEN None
    ELSE LET code == ParseU32(Slice(aperture_def, 0, pos.val))
             params_str == Slice(aperture_def, pos.val + 1, Len(aperture_def))
         IN  IF code.some /\ StartsWith(params_str, <<",">>)
             THEN LET diameter == ParseF64(Tail(params_str))
                  IN  IF diameter.some
                      THEN Some(DefineAperture(code.val, Circle(diameter.val)))
                      ELSE None
             ELSE None

\* the rectangle attempt of parse_aperture_definition (lines 182-202)
RectangleAperture(aperture_def) ==
    LET pos == Find(aperture_def, "R") IN
    IF ~pos.some THEN None
    ELSE LET code == ParseU32(Slice(aperture_def, 0, pos.val))
             params_str == Slice(aperture_def, pos.val + 1, Len(aperture_def))
         IN  IF code.some /\ StartsWith(params_str, <<",">>)
             THEN LET params == Tail(params_str)
                      x_pos == Find(params, "X")
                  IN  IF ~x_pos.some THEN None
                      ELSE LET width == ParseF64(Slice(params, 0, x_pos.val))
                               height == ParseF64(Slice(params, x_pos.val + 1, Len(params)))
                           IN  IF width.some /\ height.some
                               THEN Some(DefineAperture(code.val,
                                             Rectangle(width.val, height.val)))
                               ELSE None
             ELSE None

\* parse_aperture_definition (lines 160-207)
parse_aperture_definition(input) ==
    IF ~StartsWith(input, <<"%", "A", "D", "D">>) THEN None
    ELSE LET rest == Slice(input, 4, Len(input))
         IN  IF ~EndsWith(rest, <<"*", "%">>) THEN None
             ELSE LET aperture_def == Slice(rest, 0, Len(rest) - 2)
                  IN  IF CircleAperture(aperture_def).some
                      THEN CircleAperture(aperture_def)
                      ELSE RectangleAperture(aperture_def)

\* parse_interpolation_mode (lines 216-222)
parse_interpolation_mode(input) ==
    IF StartsWith(input, <<"G", "0", "1">>) THEN Some("Linear")
    ELSE IF StartsWith(input, <<"G", "0", "2">>) THEN Some("ClockwiseCircular")
    ELSE IF StartsWith(input, <<"G", "0", "3">>) THEN Some("CounterClockwiseCircular")
    ELSE None

\* parse_begin_region, parse_end_region, parse_end_of_file (lines 228-246)
parse_begin_region(input) == StartsWith(input, <<"G", "3", "6">>)

parse_end_region(input) == StartsWith(input, <<"G", "3", "7">>)

parse_end_of_file(input) == StartsWith(input, <<"M", "0", "2">>)

\* every numeric code selects an aperture
parse_aperture_selection_any(input) ==
    IF StartsWith(input, <<"D">>) /\ EndsWith(input, <<"*">>)
    THEN LET code == ParseU32(Slice(input, 1, Len(input) - 1))
         IN  IF code.some THEN Some(SelectAperture(code.val)) ELSE None
    ELSE None

\* parse_aperture_selection (lines 253-264)
parse_aperture_selection(input) ==
    IF StartsWith(input, <<"D">>) /\ EndsWith(input, <<"*">>)
    THEN LET code == ParseU32(Slice(input, 1, Len(input) - 1))
         IN  IF code.some /\ code.val >= 10 THEN Some(SelectAperture(code.val)) ELSE None
    ELSE None

\* one coordinate field of parse_draw_command (lines 298-331)
Field(input, letter, int_digits, dec_digits) ==
    LET pos == Find(input, letter) IN
    IF ~pos.some THEN None
    ELSE parse_coordinate(
             Slice(input, pos.val + 1, find_next_letter(input, pos.val + 1)),
             int_digits, dec_digits)

\* an axis the line does not give falls back to 0
parse_draw_command_unmodal(input, cur_x, cur_y, int_digits, dec_digits, interpolation) ==
    LET Classified(new_x, new_y, i, j) ==
            [x |-> new_x, y |-> new_y, cmd |->
             IF Contains(input, <<"D", "0", "1">>) \/ Contains(input, <<"D", "1">>)
             THEN (IF interpolation \in {"ClockwiseCircular", "CounterClockwiseCircular"}
                      /\ i.some /\ j.some
                   THEN Some(ArcDraw(Point(new_x, new_y), Point(i.val, j.val)))
                   ELSE Some(Draw(Point(new_x, new_y))))
             ELSE IF Contains(input, <<"D", "0", "2">>) \/ Contains(input, <<"D", "2">>)
             THEN Some(Move(Point(new_x, new_y)))
             ELSE IF Contains(input, <<"D", "0", "3">>) \/ Contains(input, <<"D", "3">>)
             THEN Some(Flash(Point(new_x, new_y)))
             ELSE None]
        Updated(x, y, i, j) ==
            Classified(IF x.some THEN x.val ELSE Zero,
                       IF y.some THEN y.val ELSE Zero, i, j)
    IN  IF ~EndsWith(input, <<"*">>)
        THEN [x |-> cur_x, y |-> cur_y, cmd |-> None]
        ELSE Updated(Field(input, "X", int_digits, dec_digits),
                     Field(input, "Y", int_digits, dec_digits),
                     Field(input, "I", int_digits, dec_digits),
                     Field(input, "J", int_digits, dec_digits))

\* an arc whenever I and J are given, whatever the mode
parse_draw_command_anymode(input, cur_x, cur_y, int_digits, dec_digits, interpolation) ==
    LET Classified(new_x, new_y, i, j) ==
            [x |-> new_x, y |-> new_y, cmd |->
             IF Contains(input, <<"D", "0", "1">>) \/ Contains(input, <<"D", "1">>)
             THEN (IF i.some /\ j.some
                   THEN Some(ArcDraw(Point(new_x, new_y), Point(i.val, j.val)))
                   ELSE Some(Draw(Point(new_x, new_y))))
             ELSE IF Contains(input, <<"D", "0", "2">>) \/ Contains(input, <<"D", "2">>)
             THEN Some(Move(Point(new_x, new_y)))
             ELSE IF Contains(input, <<"D", "0", "3">>) \/ Contains(input, <<"D", "3">>)
             THEN Some(Flash(Point(new_x, new_y)))
             ELSE None]
        Updated(x, y, i, j) ==
            Classified(IF x.some THEN x.val ELSE cur_x,
                       IF y.some THEN y.val ELSE cur_y, i, j)
    IN  IF ~EndsWith(input, <<"*">>)
        THEN [x |-> cur_x, y |-> cur_y, cmd |-> None]
        ELSE Updated(Field(input, "X", int_digits, dec_digits),
                     Field(input, "Y", int_digits, dec_digits),
                     Field(input, "I", int_digits, dec_digits),
                     Field(input, "J", int_digits, dec_digits))

\* parse_draw_command (lines 278-370): the new current_x, current_y and the
\* returned Option<Command>
parse_draw_command(input, cur_x, cur_y, int_digits, dec_digits, interpolation) ==
    LET Classified(new_x, new_y, i, j) ==
            [x |-> new_x, y |-> new_y, cmd |->
             IF Contains(input, <<"D", "0", "1">>) \/ Contains(input, <<"D", "1">>)
             THEN (IF interpolation \in {"ClockwiseCircular", "CounterClockwiseCircular"}
                      /\ i.some /\ j.some
                   THEN Some(ArcDraw(Point(new_x, new_y), Point(i.val, j.val)))
                   ELSE Some(Draw(Point(new_x, new_y))))
             ELSE IF Contains(input, <<"D", "0", "2">>) \/ Contains(input, <<"D", "2">>)
             THEN Some(Move(Point(new_x, new_y)))
             ELSE IF Contains(input, <<"D", "0", "3">>) \/ Contains(input, <<"D", "3">>)
             THEN Some(Flash(Point(new_x, new_y)))
             ELSE None]
        Updated(x, y, i, j) ==
            Classified(IF x.some THEN x.val ELSE cur_x,
                       IF y.some THEN y.val ELSE cur_y, i, j)
    IN  IF ~EndsWith(input, <<"*">>)
        THEN [x |-> cur_x, y |-> cur_y, cmd |-> None]
        ELSE Updated(Field(input, "X", int_digits, dec_digits),
                     Field(input, "Y", int_digits, dec_digits),
                     Field(input, "I", int_digits, dec_digits),
                     Field(input, "J", int_digits, dec_digits))

----------------------------------------------------------------------------
(* Inputs of build_edge_cuts_mesh when it is called on its own *)

PointPool ==
    {Point(Int2Num(1), Int2Num(1)), Point(Int2Num(2), Int2Num(1)),
     Point(Int2Num(2), Int2Num(2))}
\* arcs with radius 0 and radius 1; from the positions the pool can reach
\* their raw sweep is positive, zero and negative
ArcPool ==
    {ArcDraw(Point(Int2Num(1), Int2Num(1)), Point(Zero, One)),
     ArcDraw(Point(Int2Num(2), Int2Num(2)), Point(Zero, One)),
     ArcDraw(Point(Int2Num(2), Int2Num(2)), Point(Zero, Zero))}
ThicknessPool == {None, Some([m |-> 8, e |-> 1])}

ArcCount(cmds) == Cardinality({k \in 1..Len(cmds) : cmds[k].kind = "ArcDraw"})

CmdPool ==
    {Move(p) : p \in PointPool} \cup {Draw(p) : p \in PointPool}
    \cup ArcPool
    \cup {SetInterpolationMode(mode) : mode \in InterpolationMode}
    \cup {EndOfFile}

\* The commands the loop at line 261 can see next.
Pending ==
    IF entry = "build"
    THEN (IF Len(commands) < MaxCmds
          THEN {c \in CmdPool : c.kind = "ArcDraw" => ArcCount(commands) < MaxArcs}
          ELSE {})
    ELSE (IF ci < Len(commands) THEN {commands[ci + 1]} ELSE {})

Fed(cmd) ==
    /\ commands' = IF entry = "build" THEN Append(commands, cmd) ELSE commands
    /\ ci' = ci + 1

AtEnd == entry = "build" \/ ci = Len(commands)

----------------------------------------------------------------------------
(* Texts given to parse_gerber *)

MaxLines == 3     \* lines of a text over LinePool or ModalPool
MaxNoise == 2     \* blank or comment lines inserted in the example
MaxProbe == 2     \* lines of a text over ProbePool

ExampleLines ==
    << <<"%", "F", "S", "L", "A", "X", "4", "6", "Y", "4", "6", "*", "%">>,
       <<"%", "M", "O", "M", "M", "*", "%">>,
       <<"G", "0", "1", "*">>,
       <<"D", "1", "0", "*">>,
       <<"X", "1", "0", "0", "0", "0", "0", "0", "Y", "1", "0", "0", "0", "0", "0", "0", "D", "0", "2", "*">>,
       <<"X", "2", "0", "0", "0", "0", "0", "0", "Y", "1", "0", "0", "0", "0", "0", "0", "D", "0", "1", "*">>,
       <<"M", "0", "2", "*">> >>

\* the content of test_gerber_command_parsing (tests/integration_test.rs 35-50)
TestContent ==
    << <<>>,
       <<"G", "0", "4", " ", "G", "e", "r", "b", "e", "r", " ", "t", "e", "s", "t", " ", "f", "i", "l", "e", "*">>,
       <<"%", "F", "S", "L", "A", "X", "4", "6", "Y", "4", "6", "*", "%">>,
       <<"%", "M", "O", "M", "M", "*", "%">>,
       <<"G", "0", "4", " ", "S", "e", "t", " ", "c", "o", "o", "r", "d", "i", "n", "a", "t", "e", " ", "f", "o", "r", "m", "a", "t", " ", "t", "o", " ", "4", ".", "6", " ", "m", "m", "*">>,
       <<"G", "0", "1", "*">>,
       <<"G", "0", "4", " ", "L", "i", "n", "e", "a", "r", " ", "i", "n", "t", "e", "r", "p", "o", "l", "a", "t", "i", "o", "n", " ", "m", "o", "d", "e", "*">>,
       <<"D", "1", "0", "*">>,
       <<"G", "0", "4", " ", "S", "e", "l", "e", "c", "t", " ", "a", "p", "e", "r", "t", "u", "r", "e", " ", "1", "0", "*">>,
       <<"X", "1", "0", "0", "0", "0", "0", "0", "Y", "1", "0", "0", "0", "0", "0", "0", "D", "0", "2", "*">>,
       <<"G", "0", "4", " ", "M", "o", "v", "e", " ", "t", "o", " ", "1", "0", ",", "1", "0", " ", "m", "m", "*">>,
       <<"X", "2", "0", "0", "0", "0", "0", "0", "Y", "1", "0", "0", "0", "0", "0", "0", "D", "0", "1", "*">>,
       <<"G", "0", "4", " ", "D", "r", "a", "w", " ", "t", "o", " ", "2", "0", ",", "1", "0", " ", "m", "m", "*">>,
       <<"M", "0", "2", "*">>,
       <<"G", "0", "4", " ", "E", "n", "d", " ", "o", "f", " ", "f", "i", "l", "e", "*">>,
       <<" ", " ", " ", " ">> >>

NoiseLines == {<<>>, <<" ", " ">>, <<"G", "0", "4", " ", "c", "*">>}

\* a file that uses every kind of line, in the default 2.4 format
RegionText ==
    << <<"%", "M", "O", "I", "N", "*", "%">>,
       <<"%", "A", "D", "D", "1", "0", "C", ",", "0", ".", "1", "*", "%">>,
       <<"%", "A", "D", "D", "1", "1", "R", ",", "0", ".", "1", "X", "0", ".", "2", "*", "%">>,
       <<"G", "3", "6", "*">>,
       <<"X", "1", "0", "0", "0", "0", "Y", "1", "0", "0", "0", "0", "D", "0", "2", "*">>,
       <<"G", "0", "1", "*">>,
       <<"X", "2", "0", "0", "0", "0", "Y", "1", "0", "0", "0", "0", "D", "0", "1", "*">>,
       <<"G", "0", "3", "*">>,
       <<"X", "2", "0", "0", "0", "0", "Y", "2", "0", "0", "0", "0", "I", "0", "J", "1", "0", "0", "0", "0", "D", "0", "1", "*">>,
       <<"G", "3", "7", "*">>,
       <<"X", "1", "0", "0", "0", "0", "Y", "1", "0", "0", "0", "0", "D", "0", "3", "*">>,
       <<"M", "0", "2", "*">> >>

LinePool ==
    { <<"%", "F", "S", "L", "A", "X", "4", "6", "Y", "4", "6", "*", "%">>,
      <<"G", "0", "2", "*">>,
      <<"D", "1", "0", "*">>,
      <<"X", "1", "0", "0", "0", "0", "0", "0", "Y", "1", "0", "0", "0", "0", "0", "0", "D", "0", "2", "*">>,
      <<"X", "2", "0", "0", "0", "0", "0", "0", "Y", "1", "0", "0", "0", "0", "0", "0", "D", "0", "1", "*">>,
      <<"X", "2", "0", "0", "0", "0", "0", "0", "Y", "2", "0", "0", "0", "0", "0", "0", "I", "0", "J", "1", "0", "0", "0", "0", "0", "0", "D", "0", "1", "*">>,
      <<"G", "0", "4", " ", "c", "*">>,
      <<"f", "o", "o">> }

InsertAt(text, pos, line) ==
    SubSeq(text, 1, pos) \o <<line>> \o SubSeq(text, pos + 1, Len(text))

RECURSIVE WithNoise(_, _)
WithNoise(texts, n) ==
    IF n = 0 THEN texts
    ELSE WithNoise(texts \cup UNION {{InsertAt(t, pos, line) :
                                        pos \in 0..Len(t), line \in NoiseLines} :
                                     t \in texts},
                   n - 1)

\* lines for the modal state: partial coordinates, arcs with and without
\* both offsets, an undecodable coordinate, a second format
ModalPool ==
    { <<"%", "F", "S", "L", "A", "X", "3", "3", "Y", "4", "6", "*", "%">>,
      <<"G", "0", "3", "*">>,
      <<"G", "0", "1", "*">>,
      <<"X", "1", "0", "0", "0", "0", "D", "0", "1", "*">>,
      <<"Y", "2", "0", "0", "0", "0", "D", "0", "2", "*">>,
      <<"X", "2", "0", "0", "0", "0", "Y", "1", "0", "0", "0", "0", "I", "1", "0", "0", "0", "0", "D", "0", "1", "*">>,
      <<"X", "1", "0", "0", "0", "0", "Y", "2", "0", "0", "0", "0", "I", "0", "J", "1", "0", "0", "0", "0", "D", "0", "1", "*">>,
      <<"X", "1", "-", "2", "Y", "2", "0", "0", "0", "0", "D", "0", "3", "*">> }

\* lines that more than one recognizer could take, D codes of every kind,
\* coordinates without a D code, an axis letter without a value, malformed
\* lines
ProbePool ==
    { <<"G", "0", "1", "X", "1", "0", "0", "0", "0", "Y", "1", "0", "0", "0", "0", "D", "0", "1", "*">>,
      <<"G", "3", "6", "X", "1", "0", "0", "0", "0", "D", "0", "2", "*">>,
      <<"D", "1", "0", "*">>,
      <<"X", "1", "0", "0", "0", "0", "D", "1", "0", "*">>,
      <<"X", "1", "0", "0", "0", "0", "D", "2", "0", "*">>,
      <<"D", "0", "1", "*">>,
      <<"D", "0", "2", "*">>,
      <<"D", "0", "3", "*">>,
      <<"D", "9", "*">>,
      <<"X", "1", "0", "0", "0", "0", "Y", "1", "0", "0", "0", "0", "*">>,
      <<"X", "Y", "2", "0", "0", "0", "0", "D", "0", "1", "*">>,
      <<"%", "F", "S", "L", "A", "X", "4", "Y", "4", "6", "*", "%">>,
      <<"%", "A", "D", "D", "1", "0", "Q", ",", "1", "*", "%">>,
      <<"D", "4", "2", "9", "4", "9", "6", "7", "2", "9", "6", "*">>,
      <<"D", "1", "0", "0", "0", "0", "0", "0", "0", "0", "0", "0", "*">> }

\* the example of the specification and whole files
ExampleTexts == WithNoise({ExampleLines}, MaxNoise) \cup {TestContent, RegionText}

Texts ==
    UNION {[1..k -> LinePool] : k \in 0..MaxLines}
    \cup UNION {[1..k -> ModalPool] : k \in 1..MaxLines}
    \cup UNION {[1..k -> ProbePool] : k \in 1..MaxProbe}
    \cup ExampleTexts

GivenThickness == {Some([m |-> 16, e |-> 1]), Some([m |-> 8, e |-> 1])}

----------------------------------------------------------------------------
(* build_edge_cuts_mesh *)

BuilderStart ==
    /\ ci = 0
    /\ outline_points = <<>>
    /\ current_x = Zero
    /\ current_y = Zero
    /\ current_mode = "Linear"
    /\ start_point = None
    /\ result = "none"
    /\ vertices = <<>>
    /\ faces = <<>>

\* no call of parse_coordinate on its own
CoordIdle ==
    /\ raw_token = <<>>
    /\ decoded = <<>>

NoLayerFiles ==
    [edge_cuts_file |-> None, top_copper_file |-> None, bottom_copper_file |-> None,
     top_silk_file |-> None, bottom_silk_file |-> None]

\* no call of process_gerber_files
ProcessIdle ==
    /\ input_dir = "none"
    /\ entries = <<>>
    /\ ei = 0
    /\ layer_files = NoLayerFiles
    /\ meshes = <<>>
    /\ pc = "none"
    /\ process_result = "none"

\* no call of identify_layer_type or export_to_obj
ToolIdle ==
    /\ file_path = <<>>
    /\ identified = <<>>
    /\ colors = FALSE
    /\ mi = 0
    /\ global_vertex_index = 1
    /\ obj_lines = <<>>
    /\ export_result = "none"

ParserStart ==
    /\ li = 0
    /\ parser_x = Zero
    /\ parser_y = Zero
    /\ integer_digits = 2
    /\ decimal_digits = 4
    /\ current_interpolation = "Linear"
    /\ parse_result = "none"

Init ==
    /\ entry = "build"
    /\ commands = <<>>
    /\ thickness \in ThicknessPool
    /\ phase = "loop"
    /\ BuilderStart
    /\ content = <<>>
    /\ ParserStart
    /\ CoordIdle
    /\ ProcessIdle
    /\ ToolIdle

\* Command::Move { point } (lines 263-280)
HandleMove ==
    /\ phase = "loop"
    /\ \E cmd \in Pending :
        /\ cmd.kind = "Move"
        /\ Fed(cmd)
        /\ current_x' = cmd.point.x
        /\ current_y' = cmd.point.y
        /\ start_point' = IF ~start_point.some
                          THEN Some(Point(cmd.point.x, cmd.point.y))
                          ELSE start_point
        /\ outline_points' = Append(outline_points, Point(cmd.point.x, cmd.point.y))
    /\ UNCHANGED <<parserVars, coordVars, processVars, toolVars>>
    /\ UNCHANGED <<entry, thickness, phase, current_mode, result, vertices, faces>>

\* Command::Draw { point } (lines 281-288)
HandleDraw ==
    /\ phase = "loop"
    /\ \E cmd \in Pending :
        /\ cmd.kind = "Draw"
        /\ Fed(cmd)
        /\ current_x' = cmd.point.x
        /\ current_y' = cmd.point.y
        /\ outline_points' = Append(outline_points, Point(cmd.point.x, cmd.point.y))
    /\ UNCHANGED <<parserVars, coordVars, processVars, toolVars>>
    /\ UNCHANGED <<entry, thickness, phase, current_mode, start_point, result,
                   vertices, faces>>

\* Command::ArcDraw { end_point, center_offset } (lines 289-337)
HandleArcDraw ==
    /\ phase = "loop"
    /\ \E cmd \in Pending :
        /\ cmd.kind = "ArcDraw"
        /\ Fed(cmd)
        /\ outline_points' =
               outline_points \o ArcPoints(current_x, current_y, cmd, current_mode)
        /\ current_x' = cmd.end_point.x
        /\ current_y' = cmd.end_point.y
    /\ UNCHANGED <<parserVars, coordVars, processVars, toolVars>>
    /\ UNCHANGED <<entry, thickness, phase, current_mode, start_point, result,
                   vertices, faces>>

\* A builder that skips the mode commands and stays in its initial mode.
HandleSetInterpolationModeIgnored ==
    /\ phase = "loop"
    /\ \E cmd \in Pending :
        /\ cmd.kind = "SetInterpolationMode"
        /\ Fed(cmd)
        /\ current_mode' = current_mode
    /\ UNCHANGED <<parserVars, coordVars, processVars, toolVars>>
    /\ UNCHANGED <<entry, thickness, phase, outline_points, current_x, current_y,
                   start_point, result, vertices, faces>>

\* Command::SetInterpolationMode(mode) (lines 338-340)
HandleSetInterpolationMode ==
    /\ phase = "loop"
    /\ \E cmd \in Pending :
        /\ cmd.kind = "SetInterpolationMode"
        /\ Fed(cmd)
        /\ current_mode' = cmd.mode
    /\ UNCHANGED <<parserVars, coordVars, processVars, toolVars>>
    /\ UNCHANGED <<entry, thickness, phase, outline_points, current_x, current_y,
                   start_point, result, vertices, faces>>

\* _ => {} (line 341)
HandleOther ==
    /\ phase = "loop"
    /\ \E cmd \in Pending :
        /\ cmd.kind \notin {"Move", "Draw", "ArcDraw", "SetInterpolationMode"}
        /\ Fed(cmd)
    /\ UNCHANGED <<parserVars, coordVars, processVars, toolVars>>
    /\ UNCHANGED <<entry, thickness, phase, outline_points, current_x, current_y,
                   current_mode, start_point, result, vertices, faces>>

\* (start.x != last.x) || (start.y != last.y): exact for decoded numbers; a
\* coordinate computed with cos/sin compares as f64 rounding decides, and
\* both outcomes are admitted.
Differs(start, last) ==
    IF IsNum(last.x) /\ IsNum(last.y)
    THEN {(start.x # last.x) \/ (start.y # last.y)}
    ELSE BOOLEAN

\* closing point never appended
ClosedOutlineNoAppend(points, start, differs) == points

\* "Make sure the outline is closed" (lines 345-352)
ClosedOutline(points, start, differs) ==
    IF start.some /\ points # <<>> /\ differs
    THEN Append(points, start.val)
    ELSE points

CloseOutline ==
    /\ phase = "loop"
    /\ AtEnd
    /\ phase' = "closed"
    /\ \E differs \in (IF start_point.some /\ outline_points # <<>>
                       THEN Differs(start_point.val,
                                    outline_points[Len(outline_points)])
                       ELSE {FALSE}) :
           outline_points' = ClosedOutline(outline_points, start_point, differs)
    /\ UNCHANGED <<parserVars, coordVars, processVars, toolVars>>
    /\ UNCHANGED <<entry, commands, thickness, ci, current_x, current_y,
                   current_mode, start_point, result, vertices, faces>>

\* threshold off by one
TooFewPointsBelowTwo(points) == Len(points) < 2

\* threshold on distinct points
TooFewDistinctPoints(points) ==
    Cardinality({points[k] : k \in 1..Len(points)}) < 3

\* if outline_points.len() < 3 { return Err(..) } (lines 359-361)
TooFewPoints(points) == Len(points) < 3

RejectOutline ==
    /\ phase = "closed"
    /\ TooFewPoints(outline_points)
    /\ phase' = "done"
    /\ result' = "Err"
    /\ UNCHANGED <<parserVars, coordVars, processVars, toolVars>>
    /\ UNCHANGED <<entry, commands, thickness, ci, outline_points, current_x,
                   current_y, current_mode, start_point, vertices, faces>>

\* lines 363-443
Extrude ==
    /\ phase = "closed"
    /\ ~TooFewPoints(outline_points)
    /\ phase' = "done"
    /\ result' = "Ok"
    /\ vertices' = ExtrudeVertices(outline_points, pcb_thickness)
    /\ faces' = ExtrudeFaces(Len(outline_points))
    /\ UNCHANGED <<parserVars, coordVars, processVars, toolVars>>
    /\ UNCHANGED <<entry, commands, thickness, ci, outline_points, current_x,
                   current_y, current_mode, start_point>>

----------------------------------------------------------------------------
(* parse_gerber (gerber/parse.rs 45-98) *)

\* the draw recognizer tried before the interpolation-mode recognizer
RecognizerDrawFirst(line) ==
    IF line = <<>> \/ StartsWith(line, <<"G", "0", "4">>) THEN "skip"
    ELSE IF parse_format_spec(line).some THEN "format_spec"
    ELSE IF parse_units_mm(line) THEN "units_mm"
    ELSE IF parse_units_inch(line) THEN "units_inch"
    ELSE IF parse_aperture_definition(line).some THEN "aperture_definition"
    ELSE IF parse_draw_command(line, Zero, Zero, 2, 4, "Linear").cmd.some THEN "draw_command"
    ELSE IF parse_interpolation_mode(line).some THEN "interpolation_mode"
    ELSE IF parse_begin_region(line) THEN "begin_region"
    ELSE IF parse_end_region(line) THEN "end_region"
    ELSE IF parse_end_of_file(line) THEN "end_of_file"
    ELSE IF parse_aperture_selection(line).some THEN "aperture_selection"
    ELSE "draw_command"

\* The if / else-if chain of lines 61-93: the branch taken for a trimmed line.
Recognizer(line) ==
    IF line = <<>> \/ StartsWith(line, <<"G", "0", "4">>) THEN "skip"
    ELSE IF parse_format_spec(line).some THEN "format_spec"
    ELSE IF parse_units_mm(line) THEN "units_mm"
    ELSE IF parse_units_inch(line) THEN "units_inch"
    ELSE IF parse_aperture_definition(line).some THEN "aperture_definition"
    ELSE IF parse_interpolation_mode(line).some THEN "interpolation_mode"
    ELSE IF parse_begin_region(line) THEN "begin_region"
    ELSE IF parse_end_region(line) THEN "end_region"
    ELSE IF parse_end_of_file(line) THEN "end_of_file"
    ELSE IF parse_aperture_selection(line).some THEN "aperture_selection"
    ELSE "draw_command"

\* let line = line.trim(), for the line the loop at line 57 is at
Line == Trim(content[li + 1])

AtLine(branch) ==
    /\ phase = "parse"
    /\ li < Len(content)
    /\ Recognizer(Line) = branch
    /\ li' = li + 1

ParseFrame ==
    UNCHANGED <<entry, thickness, phase, content, parse_result, builderVars,
                coordVars, processVars, toolVars>>

\* lines 61-63
SkipLine ==
    /\ AtLine("skip")
    /\ ParseFrame
    /\ UNCHANGED <<commands, parser_x, parser_y, integer_digits, decimal_digits,
                   current_interpolation>>

\* lines 66-72
LineFormatSpec ==
    /\ AtLine("format_spec")
    /\ integer_digits' = parse_format_spec(Line).val[1]
    /\ decimal_digits' = parse_format_spec(Line).val[2]
    /\ commands' = Append(commands,
           FormatSpecification(parse_format_spec(Line).val[1],
                               parse_format_spec(Line).val[2]))
    /\ ParseFrame
    /\ UNCHANGED <<parser_x, parser_y, current_interpolation>>

EmitFrame ==
    /\ ParseFrame
    /\ UNCHANGED <<parser_x, parser_y, integer_digits, decimal_digits,
                   current_interpolation>>

\* lines 73-74
LineUnitsMM ==
    /\ AtLine("units_mm")
    /\ commands' = Append(commands, SetUnitsMM)
    /\ EmitFrame

\* lines 75-76
LineUnitsInch ==
    /\ AtLine("units_inch")
    /\ commands' = Append(commands, SetUnitsInch)
    /\ EmitFrame

\* lines 77-78
LineApertureDefinition ==
    /\ AtLine("aperture_definition")
    /\ commands' = Append(commands, parse_aperture_definition(Line).val)
    /\ EmitFrame

\* the mode is switched without a command being pushed
LineInterpolationModeSilent ==
    /\ AtLine("interpolation_mode")
    /\ current_interpolation' = parse_interpolation_mode(Line).val
    /\ commands' = commands
    /\ ParseFrame
    /\ UNCHANGED <<parser_x, parser_y, integer_digits, decimal_digits>>

\* lines 79-81
LineInterpolationMode ==
    /\ AtLine("interpolation_mode")
    /\ current_interpolation' = parse_interpolation_mode(Line).val
    /\ commands' = Append(commands,
           SetInterpolationMode(parse_interpolation_mode(Line).val))
    /\ ParseFrame
    /\ UNCHANGED <<parser_x, parser_y, integer_digits, decimal_digits>>

\* lines 82-83
LineBeginRegion ==
    /\ AtLine("begin_region")
    /\ commands' = Append(commands, BeginRegion)
    /\ EmitFrame

\* lines 84-85
LineEndRegion ==
    /\ AtLine("end_region")
    /\ commands' = Append(commands, EndRegion)
    /\ EmitFrame

\* lines 86-87
LineEndOfFile ==
    /\ AtLine("end_of_file")
    /\ commands' = Append(commands, EndOfFile)
    /\ EmitFrame

\* lines 88-89
LineApertureSelection ==
    /\ AtLine("aperture_selection")
    /\ commands' = Append(commands, parse_aperture_selection(Line).val)
    /\ EmitFrame

\* a coordinate field that does not decode makes parse_gerber fail
LineDrawCommandStrict ==
    /\ AtLine("draw_command")
    /\ LET Returned(r, bad) ==
               /\ parser_x' = r.x
               /\ parser_y' = r.y
               /\ commands' = IF r.cmd.some THEN Append(commands, r.cmd.val)
                              ELSE commands
               /\ parse_result' = IF bad THEN "Err" ELSE parse_result
               /\ phase' = IF bad THEN "done" ELSE phase
       IN  Returned(parse_draw_command(Line, parser_x, parser_y, integer_digits,
                                       decimal_digits, current_interpolation),
                    \E letter \in {"X", "Y", "I", "J"} :
                        /\ Find(Line, letter).some
                        /\ ~Field(Line, letter, integer_digits, decimal_digits).some)
    /\ UNCHANGED <<entry, thickness, content, builderVars, coordVars, processVars, toolVars>>
    /\ UNCHANGED <<integer_digits, decimal_digits, current_interpolation>>

\* lines 90-93
LineDrawCommand ==
    /\ AtLine("draw_command")
    /\ LET Returned(r) ==
               /\ parser_x' = r.x
               /\ parser_y' = r.y
               /\ commands' = IF r.cmd.some THEN Append(commands, r.cmd.val)
                              ELSE commands
       IN  Returned(parse_draw_command(Line, parser_x, parser_y, integer_digits,
                                       decimal_digits, current_interpolation))
    /\ ParseFrame
    /\ UNCHANGED <<integer_digits, decimal_digits, current_interpolation>>

\* Ok(commands) (line 97), handed to build_edge_cuts_mesh (lib.rs 118-119)
FinishParse ==
    /\ phase = "parse"
    /\ li = Len(content)
    /\ phase' = "loop"
    /\ parse_result' = "Ok"
    /\ UNCHANGED <<entry, commands, thickness, builderVars, content, li, parser_x,
                   parser_y, integer_digits, decimal_digits, current_interpolation,
                   coordVars, processVars, toolVars>>

Next ==
    \/ HandleMove
    \/ HandleDraw
    \/ HandleArcDraw
    \/ HandleSetInterpolationMode
    \/ HandleOther
    \/ CloseOutline
    \/ RejectOutline
    \/ Extrude

Spec == Init /\ [][Next]_vars

\* read_and_parse_gerber followed by build_edge_cuts_mesh (lib.rs 118-119)
ParseInit ==
    /\ entry = "parse"
    /\ commands = <<>>
    /\ phase = "parse"
    /\ BuilderStart
    /\ content \in Texts
    /\ thickness \in IF content \in {ExampleLines, TestContent, RegionText}
                      THEN GivenThickness
                      ELSE {Some(DefaultThickness)}
    /\ ParserStart
    /\ CoordIdle
    /\ ProcessIdle
    /\ ToolIdle

ParseNext ==
    \/ SkipLine
    \/ LineFormatSpec
    \/ LineUnitsMM
    \/ LineUnitsInch
    \/ LineApertureDefinition
    \/ LineInterpolationMode
    \/ LineBeginRegion
    \/ LineEndRegion
    \/ LineEndOfFile
    \/ LineApertureSelection
    \/ LineDrawCommand
    \/ FinishParse
    \/ HandleMove
    \/ HandleDraw
    \/ HandleArcDraw
    \/ HandleSetInterpolationMode
    \/ HandleOther
    \/ CloseOutline
    \/ RejectOutline
    \/ Extrude

ParseSpec == ParseInit /\ [][ParseNext]_vars

----------------------------------------------------------------------------
(* parse_coordinate called on its own *)

MaxTokenLen == 17    \* digits of a coordinate token

\* the tokens are the leading parts of these digit strings (2^53 + 1 and
\* beyond, all nines, a one between zeros, leading zeros), with and without
\* a sign
Tokens ==
    LET TokenSeeds ==
            {<<"9", "0", "0", "7", "1", "9", "9", "2", "5", "4", "7", "4", "0", "9", "9", "3", "2", "1", "7">>,
             <<"9", "9", "9", "9", "9", "9", "9", "9", "9", "9", "9", "9", "9", "9", "9", "9", "9", "9", "9">>,
             <<"1", "0", "0", "0", "0", "0", "0", "0", "0", "0", "0", "0", "0", "0", "0", "0", "0", "0", "1">>,
             <<"0", "0", "1", "2", "3", "4", "5", "6", "7", "8", "9", "0", "1", "2", "3", "4", "5", "6", "7">>}
        digits == {SubSeq(seed, 1, n) : seed \in TokenSeeds, n \in 1..MaxTokenLen}
    IN  digits \cup {<<"-">> \o d : d \in digits}

\* <<integer_digits, decimal_digits>> of the formats tried
FormatPool == {<<2, 4>>, <<4, 6>>, <<6, 6>>, <<9, 9>>, <<6, 0>>, <<0, 6>>}

CoordInit ==
    /\ entry = "coord"
    /\ commands = <<>>
    /\ thickness = None
    /\ phase = "coord"
    /\ BuilderStart
    /\ content = <<>>
    /\ li = 0
    /\ parser_x = Zero
    /\ parser_y = Zero
    /\ \E fmt \in FormatPool : integer_digits = fmt[1] /\ decimal_digits = fmt[2]
    /\ current_interpolation = "Linear"
    /\ parse_result = "none"
    /\ raw_token \in Tokens
    /\ decoded = <<>>
    /\ ProcessIdle
    /\ ToolIdle

DecodeCoordinate ==
    /\ entry = "coord"
    /\ decoded = <<>>
    /\ decoded' = <<parse_coordinate(raw_token, integer_digits, decimal_digits)>>
    /\ UNCHANGED <<entry, commands, thickness, phase, builderVars, parserVars,
                   raw_token, processVars, toolVars>>

CoordSpec == CoordInit /\ [][DecodeCoordinate]_vars

----------------------------------------------------------------------------
(* process_gerber_files (lib.rs 50-196) *)

MaxFiles == 2        \* entries of an input directory

\* str::to_lowercase on the ASCII letters of a file name
to_lowercase(s) ==
    LET upper == <<"A", "B", "C", "D", "E", "F", "G", "H", "I", "J", "K", "L", "M", "N", "O", "P", "Q", "R", "S", "T", "U", "V", "W", "X", "Y", "Z">>
        lower == <<"a", "b", "c", "d", "e", "f", "g", "h", "i", "j", "k", "l", "m", "n", "o", "p", "q", "r", "s", "t", "u", "v", "w", "x", "y", "z">>
    IN  [i \in 1..Len(s) |->
            IF \E k \in 1..Len(upper) : upper[k] = s[i]
            THEN lower[CHOOSE k \in 1..Len(upper) : upper[k] = s[i]]
            ELSE s[i]]

\* Path::extension: the part after the last '.', a '.' that begins the file
\* name apart
extension(name) ==
    LET dots == {i \in 2..Len(name) : name[i] = "."}
    IN  IF dots = {} THEN None
        ELSE Some(SubSeq(name, (CHOOSE i \in dots : \A j \in dots : j <= i) + 1,
                         Len(name)))

\* The Option<PathBuf> that the first pass assigns the path to (lines 79-110),
\* "none" when it leaves all five alone.
LayerSlot(name) ==
    LET file_name == to_lowercase(name)
        has(patterns) == \E pat \in patterns : Contains(file_name, pat)
    IN  IF ~extension(name).some
           \/ extension(name).val \notin {<<"g", "b", "r">>, <<"G", "B", "R">>}
        THEN "none"
        ELSE IF has({<<"e", "d", "g", "e">>, <<"o", "u", "t", "l", "i", "n", "e">>, <<"c", "u", "t", "s">>})
        THEN "edge_cuts_file"
        ELSE IF has({<<"f", ".", "c", "u">>, <<"f", "_", "c", "u">>, <<"t", "o", "p", ".", "c", "u">>})
        THEN "top_copper_file"
        ELSE IF has({<<"b", ".", "c", "u">>, <<"b", "_", "c", "u">>, <<"b", "o", "t", "t", "o", "m", ".", "c", "u">>})
        THEN "bottom_copper_file"
        ELSE IF has({<<"f", ".", "s", "i", "l", "k">>, <<"f", "_", "s", "i", "l", "k">>, <<"t", "o", "p", ".", "s", "i", "l", "k">>})
        THEN "top_silk_file"
        ELSE IF has({<<"b", ".", "s", "i", "l", "k">>, <<"b", "_", "s", "i", "l", "k">>, <<"b", "o", "t", "t", "o", "m", ".", "s", "i", "l", "k">>})
        THEN "bottom_silk_file"
        ELSE "none"

Mesh(mesh_vertices, mesh_faces, layer_type) ==
    [vertices |-> mesh_vertices, faces |-> mesh_faces, layer_type |-> layer_type]

\* the square of the placeholder meshes: four corners, one face
PlaceholderMesh(center_x, center_y, size, z_position, is_top, layer_type) ==
    LET normal == Point3D(Zero, Zero, IF is_top THEN One ELSE Int2Num(-1))
        corner(dx, dy) ==
            Vertex(Point3D(Add(center_x, Mul(Int2Num(dx), size)),
                           Add(center_y, Mul(Int2Num(dy), size)), z_position),
                   normal)
    IN  Mesh(<<corner(-1, -1), corner(1, -1), corner(1, 1), corner(-1, 1)>>,
             <<<<0, 1, 2, 3>>>>, layer_type)

\* build_copper_mesh (lines 460-552): Some(mesh) for Ok(mesh)
build_copper_mesh(is_top, given) ==
    LET t == IF given.some THEN given.val ELSE DefaultThickness
    IN  Some(PlaceholderMesh(Int2Num(150), Int2Num(-90), Int2Num(10),
                             IF is_top THEN t ELSE Zero, is_top, "Copper"))

\* build_silkscreen_mesh (lines 568-663); the sum with SILKSCREEN_THICKNESS is
\* held as the decimal it denotes
build_silkscreen_mesh(is_top, given) ==
    LET t == IF given.some THEN given.val ELSE DefaultThickness
        SILKSCREEN_THICKNESS == [m |-> 1, e |-> 2]
    IN  Some(PlaceholderMesh(Int2Num(200), Int2Num(-90), Int2Num(5),
                             IF is_top THEN Add(t, SILKSCREEN_THICKNESS)
                             ELSE Sub(Zero, SILKSCREEN_THICKNESS),
                             is_top, "Silkscreen"))

\* A directory entry: its file name, whether fs::read_to_string succeeds on
\* it, whether the path is valid UTF-8 (the name is then the lossy one), and
\* the lines of its text.
File(name, readable, utf8, text) ==
    [ok |-> TRUE, name |-> name, readable |-> readable, utf8 |-> utf8, text |-> text]

FilePool ==
    {File(<<"E", "d", "g", "e", "_", "C", "u", "t", "s", ".", "g", "b", "r">>, TRUE, TRUE, TestContent),
     File(<<"o", "u", "t", "l", "i", "n", "e", ".", "G", "B", "R">>, TRUE, TRUE, RegionText),
     File(<<"c", "u", "t", "s", ".", "g", "b", "r">>, TRUE, TRUE, <<>>),
     File(<<"e", "d", "g", "e", ".", "g", "b", "r">>, FALSE, TRUE, <<>>),
     File(<<"e", "d", "g", "e", ".", "G", "b", "r">>, TRUE, TRUE, TestContent),
     File(<<"F", "_", "C", "u", ".", "g", "b", "r">>, TRUE, TRUE, <<>>),
     File(<<"t", "o", "p", ".", "c", "u", ".", "g", "b", "r">>, FALSE, TRUE, <<>>),
     File(<<"f", ".", "c", "u", "?", ".", "g", "b", "r">>, TRUE, FALSE, <<>>),
     File(<<"B", "_", "C", "u", ".", "g", "b", "r">>, TRUE, TRUE, <<>>),
     File(<<"F", "_", "S", "i", "l", "k", ".", "g", "b", "r">>, TRUE, TRUE, <<>>),
     File(<<"b", ".", "s", "i", "l", "k", ".", "g", "b", "r">>, FALSE, TRUE, <<>>),
     File(<<"d", "r", "i", "l", "l", ".", "g", "b", "r">>, TRUE, TRUE, <<>>),
     File(<<"n", "o", "t", "e", "s", ".", "t", "x", "t">>, TRUE, TRUE, <<>>),
     [ok |-> FALSE, name |-> <<>>, readable |-> FALSE, utf8 |-> TRUE, text |-> <<>>]}

\* the directories of exactly k entries of the pool, no entry twice, in any
\* order
RECURSIVE DirsOfLen(_)
DirsOfLen(k) ==
    IF k = 0 THEN {<<>>}
    ELSE UNION {{Append(d, f) : f \in {g \in FilePool : \A i \in 1..Len(d) : d[i] # g}} :
                   d \in DirsOfLen(k - 1)}

\* the directories tried: up to MaxFiles entries, and a board with all five
\* layers
Directories ==
    UNION {DirsOfLen(k) : k \in 0..MaxFiles}
    \cup {<<File(<<"F", "_", "C", "u", ".", "g", "b", "r">>, TRUE, TRUE, <<>>),
            File(<<"E", "d", "g", "e", "_", "C", "u", "t", "s", ".", "g", "b", "r">>, TRUE, TRUE, TestContent),
            File(<<"B", "_", "C", "u", ".", "g", "b", "r">>, TRUE, TRUE, <<>>),
            File(<<"F", "_", "S", "i", "l", "k", ".", "g", "b", "r">>, TRUE, TRUE, <<>>),
            File(<<"B", "_", "S", "i", "l", "k", ".", "g", "b", "r">>, TRUE, TRUE, <<>>)>>}

ProcessInit ==
    /\ entry = "process"
    /\ commands = <<>>
    /\ thickness \in GivenThickness
    /\ phase = "idle"
    /\ BuilderStart
    /\ content = <<>>
    /\ ParserStart
    /\ CoordIdle
    /\ input_dir \in {"missing", "file", "unreadable", "dir"}
    /\ entries \in IF input_dir = "dir" THEN Directories ELSE {<<>>}
    /\ ei = 0
    /\ layer_files = NoLayerFiles
    /\ meshes = <<>>
    /\ pc = "open"
    /\ process_result = "none"
    /\ ToolIdle

\* what a step of process_gerber_files itself leaves alone
ProcessFrame ==
    UNCHANGED <<entry, commands, thickness, builderVars, li, parser_x, parser_y,
                integer_digits, decimal_digits, current_interpolation, parse_result,
                coordVars, toolVars, input_dir, entries>>

\* lines 51-66: the path must exist, be a directory, and read_dir must succeed
OpenInputDir ==
    /\ pc = "open"
    /\ IF input_dir = "dir"
       THEN pc' = "categorize" /\ process_result' = process_result
       ELSE pc' = "done" /\ process_result' = "Err"
    /\ UNCHANGED <<phase, content, ei, layer_files, meshes>>
    /\ ProcessFrame

\* lines 76-113: one entry of the first pass, or the end of the loop
CategorizeEntry ==
    /\ pc = "categorize"
    /\ IF ei < Len(entries)
       THEN /\ ei' = ei + 1
            /\ pc' = pc
            /\ LET e == entries[ei + 1]
               IN  layer_files' =
                       IF e.ok /\ LayerSlot(e.name) # "none"
                       THEN [layer_files EXCEPT ![LayerSlot(e.name)] = Some(e)]
                       ELSE layer_files
       ELSE /\ pc' = "edge_cuts"
            /\ UNCHANGED <<ei, layer_files>>
    /\ UNCHANGED <<phase, content, meshes, process_result>>
    /\ ProcessFrame

\* lines 116-118 and 121-123: no edge-cuts file is an Err; path.to_str().unwrap()
\* panics on a path that is not UTF-8; a failed read is an Err; else the text
\* goes to parse_gerber and its commands to build_edge_cuts_mesh
ReadEdgeCuts ==
    /\ pc = "edge_cuts"
    /\ LET f == layer_files.edge_cuts_file
       IN  IF ~f.some \/ (f.val.utf8 /\ ~f.val.readable)
           THEN pc' = "done" /\ process_result' = "Err" /\ UNCHANGED <<phase, content>>
           ELSE IF ~f.val.utf8
           THEN pc' = "done" /\ process_result' = "panic" /\ UNCHANGED <<phase, content>>
           ELSE /\ pc' = "edge_cuts_mesh"
                /\ process_result' = process_result
                /\ content' = f.val.text
                /\ phase' = "parse"
    /\ UNCHANGED <<ei, layer_files, meshes>>
    /\ ProcessFrame

\* lines 119-120: the ? on build_edge_cuts_mesh, then the push
PushEdgeCuts ==
    /\ pc = "edge_cuts_mesh"
    /\ phase = "done"
    /\ IF result = "Ok"
       THEN /\ meshes' = Append(meshes, Mesh(vertices, faces, "EdgeCuts"))
            /\ pc' = "top_copper"
            /\ process_result' = process_result
       ELSE /\ meshes' = meshes
            /\ pc' = "done"
            /\ process_result' = "Err"
    /\ UNCHANGED <<phase, content, ei, layer_files>>
    /\ ProcessFrame

\* read_and_parse_gerber with ? in place of if let Ok
LayerStepStrict(here, slot, built, next) ==
    /\ pc = here
    /\ LET f == layer_files[slot]
       IN  IF ~f.some
           THEN pc' = next /\ UNCHANGED <<meshes, process_result>>
           ELSE IF ~f.val.utf8
           THEN pc' = "done" /\ process_result' = "panic" /\ meshes' = meshes
           ELSE IF ~f.val.readable
           THEN pc' = "done" /\ process_result' = "Err" /\ meshes' = meshes
           ELSE /\ pc' = next
                /\ process_result' = process_result
                /\ meshes' = IF built.some THEN Append(meshes, built.val) ELSE meshes
    /\ UNCHANGED <<phase, content, ei, layer_files>>
    /\ ProcessFrame

\* the mesh of an optional layer put in front of the meshes already there
LayerStepFront(here, slot, built, next) ==
    /\ pc = here
    /\ LET f == layer_files[slot]
       IN  IF ~f.some
           THEN pc' = next /\ UNCHANGED <<meshes, process_result>>
           ELSE IF ~f.val.utf8
           THEN pc' = "done" /\ process_result' = "panic" /\ meshes' = meshes
           ELSE /\ pc' = next
                /\ process_result' = process_result
                /\ meshes' = IF f.val.readable /\ built.some
                             THEN <<built.val>> \o meshes
                             ELSE meshes
    /\ UNCHANGED <<phase, content, ei, layer_files>>
    /\ ProcessFrame

\* One optional layer (lines 126-141, 143-158, 161-176, 178-193): without a
\* file nothing happens; path.to_str().unwrap() panics on a path that is not
\* UTF-8; a failed read skips the layer; the mesh is pushed when the builder
\* returns Ok(mesh), and only warned about otherwise.
LayerStep(here, slot, built, next) ==
    /\ pc = here
    /\ LET f == layer_files[slot]
       IN  IF ~f.some
           THEN pc' = next /\ UNCHANGED <<meshes, process_result>>
           ELSE IF ~f.val.utf8
           THEN pc' = "done" /\ process_result' = "panic" /\ meshes' = meshes
           ELSE /\ pc' = next
                /\ process_result' = process_result
                /\ meshes' = IF f.val.readable /\ built.some
                             THEN Append(meshes, built.val)
                             ELSE meshes
    /\ UNCHANGED <<phase, content, ei, layer_files>>
    /\ ProcessFrame

\* line 195
ReturnModel ==
    /\ pc = "return"
    /\ pc' = "done"
    /\ process_result' = "Ok"
    /\ UNCHANGED <<phase, content, ei, layer_files, meshes>>
    /\ ProcessFrame

ProcessNext ==
    \/ OpenInputDir
    \/ CategorizeEntry
    \/ ReadEdgeCuts
    \/ PushEdgeCuts
    \/ LayerStep("top_copper", "top_copper_file",
                 build_copper_mesh(TRUE, thickness), "bottom_copper")
    \/ LayerStep("bottom_copper", "bottom_copper_file",
                 build_copper_mesh(FALSE, thickness), "top_silk")
    \/ LayerStep("top_silk", "top_silk_file",
                 build_silkscreen_mesh(TRUE, thickness), "bottom_silk")
    \/ LayerStep("bottom_silk", "bottom_silk_file",
                 build_silkscreen_mesh(FALSE, thickness), "return")
    \/ ReturnModel
    \/ ParseNext

ProcessSpec == ProcessInit /\ [][ProcessNext]_vars

----------------------------------------------------------------------------
(* identify_layer_type (lib.rs 665-682) *)

\* copper patterns tried before the edge-cuts patterns
identify_layer_type_copperfirst(name) ==
    LET file_name == to_lowercase(name)
        has(patterns) == \E pat \in patterns : Contains(file_name, pat)
    IN  IF has({<<"f", ".", "c", "u">>, <<"f", "_", "c", "u">>, <<"t", "o", "p", ".", "c", "u">>}) THEN "Copper"
        ELSE IF has({<<"b", ".", "c", "u">>, <<"b", "_", "c", "u">>, <<"b", "o", "t", "t", "o", "m", ".", "c", "u">>}) THEN "Copper"
        ELSE IF has({<<"e", "d", "g", "e">>, <<"o", "u", "t", "l", "i", "n", "e">>, <<"c", "u", "t", "s">>}) THEN "EdgeCuts"
        ELSE IF has({<<"f", ".", "s", "i", "l", "k">>, <<"f", "_", "s", "i", "l", "k">>, <<"t", "o", "p", ".", "s", "i", "l", "k">>}) THEN "Silkscreen"
        ELSE IF has({<<"b", ".", "s", "i", "l", "k">>, <<"b", "_", "s", "i", "l", "k">>, <<"b", "o", "t", "t", "o", "m", ".", "s", "i", "l", "k">>}) THEN "Silkscreen"
        ELSE "EdgeCuts"

\* identify_layer_type, given the file name of the path
identify_layer_type(name) ==
    LET file_name == to_lowercase(name)
        has(patterns) == \E pat \in patterns : Contains(file_name, pat)
    IN  IF has({<<"e", "d", "g", "e">>, <<"o", "u", "t", "l", "i", "n", "e">>, <<"c", "u", "t", "s">>}) THEN "EdgeCuts"
        ELSE IF has({<<"f", ".", "c", "u">>, <<"f", "_", "c", "u">>, <<"t", "o", "p", ".", "c", "u">>}) THEN "Copper"
        ELSE IF has({<<"b", ".", "c", "u">>, <<"b", "_", "c", "u">>, <<"b", "o", "t", "t", "o", "m", ".", "c", "u">>}) THEN "Copper"
        ELSE IF has({<<"f", ".", "s", "i", "l", "k">>, <<"f", "_", "s", "i", "l", "k">>, <<"t", "o", "p", ".", "s", "i", "l", "k">>}) THEN "Silkscreen"
        ELSE IF has({<<"b", ".", "s", "i", "l", "k">>, <<"b", "_", "s", "i", "l", "k">>, <<"b", "o", "t", "t", "o", "m", ".", "s", "i", "l", "k">>}) THEN "Silkscreen"
        ELSE "EdgeCuts"

\* file names tried: two words, each a pattern, a pattern in other case, a
\* part of a pattern or nothing, and an extension
FileNames ==
    LET Words ==
            {<<>>,
     <<"e", "d", "g", "e">>,
     <<"o", "u", "t", "l", "i", "n", "e">>,
     <<"c", "u", "t", "s">>,
     <<"f", ".", "c", "u">>,
     <<"f", "_", "c", "u">>,
     <<"t", "o", "p", ".", "c", "u">>,
     <<"b", ".", "c", "u">>,
     <<"b", "_", "c", "u">>,
     <<"b", "o", "t", "t", "o", "m", ".", "c", "u">>,
     <<"f", ".", "s", "i", "l", "k">>,
     <<"f", "_", "s", "i", "l", "k">>,
     <<"t", "o", "p", ".", "s", "i", "l", "k">>,
     <<"b", ".", "s", "i", "l", "k">>,
     <<"b", "_", "s", "i", "l", "k">>,
     <<"b", "o", "t", "t", "o", "m", ".", "s", "i", "l", "k">>,
     <<"E", "d", "g", "e", "_">>,
     <<"F", ".", "C", "u">>,
     <<"B", "_", "C", "U">>,
     <<"T", "O", "P", ".", "S", "I", "L", "K">>,
     <<"B", "_", "S", "i", "l", "k">>,
     <<"t", "e", "s", "t", "_">>,
     <<"d", "r", "i", "l", "l">>,
     <<"c", "u">>,
     <<"s", "i", "l", "k">>,
     <<"f", ".">>}
        Extensions == {<<>>, <<".", "g", "b", "r">>, <<".", "G", "B", "R">>,
                       <<".", "t", "x", "t">>}
    IN  {first \o second \o ext : first \in Words, second \in Words, ext \in Extensions}
        \ {<<>>}

LayerInit ==
    /\ entry = "layer"
    /\ commands = <<>>
    /\ thickness = None
    /\ phase = "layer"
    /\ BuilderStart
    /\ content = <<>>
    /\ ParserStart
    /\ CoordIdle
    /\ ProcessIdle
    /\ file_path \in FileNames
    /\ identified = <<>>
    /\ colors = FALSE
    /\ mi = 0
    /\ global_vertex_index = 1
    /\ obj_lines = <<>>
    /\ export_result = "none"

IdentifyLayer ==
    /\ entry = "layer"
    /\ identified = <<>>
    /\ identified' = <<identify_layer_type(file_path)>>
    /\ UNCHANGED <<entry, commands, thickness, phase, builderVars, parserVars,
                   coordVars, processVars, file_path, colors, mi,
                   global_vertex_index, obj_lines, export_result>>

LayerSpec == LayerInit /\ [][IdentifyLayer]_vars

----------------------------------------------------------------------------
(* export_to_obj (usdz/export.rs 38-181) *)

MaxMeshes == 3    \* meshes of an exported model

\* Meshes of a model: the three kinds process_gerber_files builds, a mesh
\* with faces of fewer than three indices, a mesh without vertices, and a
\* mesh whose face names a vertex it does not have.
MeshPool ==
    LET corner == Vertex(Point3D(Zero, Zero, One), Point3D(Zero, Zero, One))
        triangle == <<Point(Zero, Zero), Point(One, Zero), Point(One, One)>>
    IN  { Mesh(ExtrudeVertices(triangle, DefaultThickness), ExtrudeFaces(3), "EdgeCuts"),
          build_copper_mesh(TRUE, None).val,
          build_silkscreen_mesh(FALSE, None).val,
          Mesh(<<corner, corner, corner>>, <<<<0, 1>>, <<0, 1, 2>>, <<>>, <<2>>>>, "Drill"),
          Mesh(<<>>, <<>>, "Copper"),
          Mesh(<<corner, corner>>, <<<<0, 1, 4>>>>, "Silkscreen") }

ExportInit ==
    /\ entry = "export"
    /\ commands = <<>>
    /\ thickness = None
    /\ phase = "open"
    /\ BuilderStart
    /\ content = <<>>
    /\ ParserStart
    /\ CoordIdle
    /\ input_dir = "none"
    /\ entries = <<>>
    /\ ei = 0
    /\ layer_files = NoLayerFiles
    /\ meshes \in UNION {[1..k -> MeshPool] : k \in 0..MaxMeshes}
    /\ pc = "none"
    /\ process_result = "none"
    /\ file_path = <<>>
    /\ identified = <<>>
    /\ colors \in BOOLEAN
    /\ mi = 0
    /\ global_vertex_index = 1
    /\ obj_lines = <<>>
    /\ export_result = "none"

\* File::create, the heading and, with colors, the material library (lines
\* 44-106); the text of the .mtl file is fixed and is not kept
OpenFile ==
    /\ entry = "export"
    /\ phase = "open"
    /\ \E created \in BOOLEAN :
           IF created
           THEN /\ phase' = "meshes"
                /\ obj_lines' = <<[kind |-> "heading"]>>
                                 \o (IF colors THEN <<[kind |-> "mtllib"]>> ELSE <<>>)
                /\ export_result' = export_result
           ELSE /\ phase' = "done"
                /\ obj_lines' = obj_lines
                /\ export_result' = "Err"
    /\ UNCHANGED <<mi, global_vertex_index>>
    /\ UNCHANGED <<entry, commands, thickness, builderVars, parserVars, coordVars,
                   processVars, file_path, identified, colors>>

\* "Write vertices" (lines 144-162): a v line and a vn line for each vertex
VertexLines(mesh) ==
    LET RECURSIVE From(_)
        From(k) ==
            IF k > Len(mesh.vertices) THEN <<>>
            ELSE <<[kind |-> "v", at |-> mesh.vertices[k].position],
                   [kind |-> "vn", at |-> mesh.vertices[k].normal]>> \o From(k + 1)
    IN  From(1)

\* the index of the mesh's own list written as it is, plus one
FaceLinesLocal(mesh, base) ==
    LET Ref(vertex_idx) == [v |-> 1 + vertex_idx, vn |-> 1 + vertex_idx]
        RECURSIVE From(_)
        From(k) ==
            IF k > Len(mesh.faces) THEN <<>>
            ELSE (IF Len(mesh.faces[k]) >= 3
                  THEN <<[kind |-> "f",
                          refs |-> [n \in 1..Len(mesh.faces[k]) |-> Ref(mesh.faces[k][n])]]>>
                  ELSE <<>>) \o From(k + 1)
    IN  From(1)

\* "Write faces" (lines 164-176): an f line for each face of three or more
\* indices, each index written as " {}//{}" with obj_idx twice
FaceLines(mesh, base) ==
    LET Ref(vertex_idx) == [v |-> base + vertex_idx, vn |-> base + vertex_idx]
        RECURSIVE From(_)
        From(k) ==
            IF k > Len(mesh.faces) THEN <<>>
            ELSE (IF Len(mesh.faces[k]) >= 3
                  THEN <<[kind |-> "f",
                          refs |-> [n \in 1..Len(mesh.faces[k]) |-> Ref(mesh.faces[k][n])]]>>
                  ELSE <<>>) \o From(k + 1)
    IN  From(1)

\* one round of `for mesh in &model.meshes` (lines 110-179)
WriteMesh ==
    /\ entry = "export"
    /\ phase = "meshes"
    /\ mi < Len(meshes)
    /\ mi' = mi + 1
    /\ LET mesh == meshes[mi + 1]
           high == mesh.vertices # <<>>
                   /\ Sign(Sub(mesh.vertices[1].position.z, [m |-> 5, e |-> 1])) > 0
           material ==
               IF mesh.layer_type = "EdgeCuts" THEN "EdgeCuts"
               ELSE IF mesh.layer_type = "Copper"
               THEN (IF high THEN "TopCopper" ELSE "BottomCopper")
               ELSE IF mesh.layer_type = "Silkscreen"
               THEN (IF high THEN "TopSilkscreen" ELSE "BottomSilkscreen")
               ELSE "EdgeCuts"
       IN  /\ obj_lines' =
                  obj_lines
                  \o <<[kind |-> "layer", layer_type |-> mesh.layer_type]>>
                  \o (IF colors
                      THEN <<[kind |-> "usemtl", material |-> material],
                             [kind |-> "debug", layer_type |-> mesh.layer_type,
                              count |-> Len(mesh.vertices)]>>
                      ELSE <<>>)
                  \o VertexLines(mesh)
                  \o FaceLines(mesh, global_vertex_index)
           /\ global_vertex_index' = global_vertex_index + Len(mesh.vertices)
    /\ UNCHANGED <<phase, export_result>>
    /\ UNCHANGED <<entry, commands, thickness, builderVars, parserVars, coordVars,
                   processVars, file_path, identified, colors>>

\* Ok(()) (line 181)
FinishExport ==
    /\ entry = "export"
    /\ phase = "meshes"
    /\ mi = Len(meshes)
    /\ phase' = "done"
    /\ export_result' = "Ok"
    /\ UNCHANGED <<mi, global_vertex_index, obj_lines>>
    /\ UNCHANGED <<entry, commands, thickness, builderVars, parserVars, coordVars,
                   processVars, file_path, identified, colors>>

ExportNext ==
    \/ OpenFile
    \/ WriteMesh
    \/ FinishExport

ExportSpec == ExportInit /\ [][ExportNext]_vars

----------------------------------------------------------------------------
(* Properties of build_edge_cuts_mesh *)

NumPoints == Len(outline_points)

\* 0-based access, as the Vec indices of the code
At(seq, i) == seq[i + 1]

KindCount(cmds, kind) == Cardinality({k \in 1..Len(cmds) : cmds[k].kind = kind})

\* C1: whenever build_edge_cuts_mesh succeeds on an outline of N points,
\* N >= 3, the mesh has exactly 2N vertices and N+2 faces, for every thickness.
Thm_C1 ==
    result = "Ok" =>
        /\ NumPoints >= 3
        /\ Len(vertices) = 2 * NumPoints
        /\ Len(faces) = NumPoints + 2

Wit_C1 ==
    /\ result = "Ok"
    /\ NumPoints = 4
    /\ thickness.some
    /\ Len(vertices) = 8
    /\ Len(faces) = 6

\* C2: outline point k is vertex 2k as a top vertex (z = thickness, 1.6 when
\* none is given, normal (0,0,1)) and vertex 2k+1 as a bottom vertex (z = 0,
\* normal (0,0,-1)), both with the x,y of point k.
Thm_C2 ==
    result = "Ok" =>
        \A k \in 0..(NumPoints - 1) :
            LET p == At(outline_points, k)
                z == IF thickness = None THEN [m |-> 16, e |-> 1] ELSE thickness.val
            IN  /\ At(vertices, 2 * k) =
                       [position |-> [x |-> p.x, y |-> p.y, z |-> z],
                        normal |-> [x |-> Zero, y |-> Zero, z |-> Int2Num(1)]]
                /\ At(vertices, 2 * k + 1) =
                       [position |-> [x |-> p.x, y |-> p.y, z |-> Zero],
                        normal |-> [x |-> Zero, y |-> Zero, z |-> Int2Num(-1)]]

Wit_C2 ==
    /\ result = "Ok"
    /\ thickness = None
    /\ NumPoints = 3
    /\ At(vertices, 4).position.z = [m |-> 16, e |-> 1]
    /\ At(vertices, 5).position.z = Zero
    /\ At(outline_points, 1) # At(outline_points, 2)

\* C3: the faces are exactly the top face of the even indices in point order,
\* the bottom face of the odd indices in reverse point order, and one quad
\* (2k, 2k+1, 2((k+1) mod N)+1, 2((k+1) mod N)) per point k; every index is
\* below 2N and every face has at least 3 entries.
Thm_C3 ==
    result = "Ok" =>
        LET N == NumPoints IN
        /\ At(faces, 0) = [j \in 1..N |-> 2 * (j - 1)]
        /\ At(faces, 1) = [j \in 1..N |-> 2 * (N - j) + 1]
        /\ \A k \in 0..(N - 1) :
               At(faces, 2 + k) =
                   <<2 * k, 2 * k + 1, 2 * ((k + 1) % N) + 1, 2 * ((k + 1) % N)>>
        /\ \A f \in 1..Len(faces) :
               /\ Len(faces[f]) >= 3
               /\ \A j \in 1..Len(faces[f]) : faces[f][j] \in 0..(2 * N - 1)

Wit_C3 ==
    /\ result = "Ok"
    /\ NumPoints = 4
    /\ At(faces, 1) = <<7, 5, 3, 1>>
    /\ At(faces, 5) = <<6, 7, 1, 0>>

\* the directed edges of face f: cyclically consecutive indices
FaceEdges(f) ==
    {<<faces[f][j], faces[f][(j % Len(faces[f])) + 1]>> : j \in 1..Len(faces[f])}

AllEdges == UNION {FaceEdges(f) : f \in 1..Len(faces)}

Reversed(edges) == {<<e[2], e[1]>> : e \in edges}

RECURSIVE TotalLen(_)
TotalLen(fs) == IF fs = <<>> THEN 0 ELSE Len(Head(fs)) + TotalLen(Tail(fs))

\* C4: the mesh is a closed, consistently oriented 2-manifold: every directed
\* edge of a face occurs in exactly one face (the distinct edges are as many
\* as the places where faces have edges), and its reverse occurs in exactly
\* one other face (the reverse of every edge is an edge, and never an edge of
\* the same face).
Thm_C4 ==
    result = "Ok" =>
        LET all == AllEdges IN
        /\ Cardinality(all) = TotalLen(faces)
        /\ Reversed(all) = all
        /\ \A f \in 1..Len(faces) :
               LET own == FaceEdges(f) IN Reversed(own) \cap own = {}

Wit_C4 ==
    /\ result = "Ok"
    /\ NumPoints = 3
    /\ <<0, 2>> \in FaceEdges(1)
    /\ <<2, 0>> \in FaceEdges(3)
    /\ Cardinality(AllEdges) = 18

\* C5 (as claimed): whenever the extrusion step is reached the outline is
\* closed, its first point equals its last point, for every command sequence.
Cex_C5 ==
    result = "Ok" => At(outline_points, 0) = At(outline_points, NumPoints - 1)

DistinctPoints == Cardinality({outline_points[k] : k \in 1..NumPoints})

\* C6 (as claimed): the build fails whenever the closed polygon has fewer
\* than 3 distinct points.
Cex_C6 ==
    (phase = "done" /\ DistinctPoints < 3) => result = "Err"

\* C6 (amended): the build fails whenever the point list, after closure and
\* with repeated points counted, has fewer than 3 points.
Thm_C6 ==
    (phase = "done" /\ NumPoints <= 2) => result = "Err"

Wit_C6 ==
    /\ phase = "done"
    /\ NumPoints = 2
    /\ DistinctPoints = 1
    /\ result = "Err"

NoPointCommand(cmds) ==
    \A k \in 1..Len(cmds) : cmds[k].kind \notin {"Move", "Draw", "ArcDraw"}

\* C7: the build returns Err, with no vertices and no faces, exactly when the
\* point list after the closing point has been appended has fewer than 3
\* points; an empty sequence, a single Move and a sequence without
\* Move/Draw/ArcDraw fail.
Thm_C7 ==
    phase = "done" =>
        /\ result = "Err" <=> NumPoints < 3
        /\ result = "Err" => (vertices = <<>> /\ faces = <<>>)
        /\ result = "Ok" => (vertices # <<>> /\ faces # <<>>)
        /\ commands = <<>> => result = "Err"
        /\ (Len(commands) = 1 /\ commands[1].kind = "Move") => result = "Err"
        /\ NoPointCommand(commands) => result = "Err"

Wit_C7 ==
    /\ phase = "done"
    /\ result = "Err"
    /\ Len(commands) = 3
    /\ KindCount(commands, "Move") = 1
    /\ KindCount(commands, "Draw") = 1
    /\ NumPoints = 2

\* the points pushed by the Move and Draw commands, in order
RECURSIVE LinearPoints(_)
LinearPoints(cmds) ==
    IF cmds = <<>> THEN <<>>
    ELSE (IF Head(cmds).kind \in {"Move", "Draw"} THEN <<Head(cmds).point>> ELSE <<>>)
         \o LinearPoints(Tail(cmds))

\* C8 (as claimed): for a sequence with at least one Move and no ArcDraw the
\* outline has as many points as there are Move and Draw commands, plus one
\* closing point if the first and last of these points differ.
Cex_C8 ==
    (/\ phase \in {"closed", "done"}
     /\ KindCount(commands, "Move") >= 1
     /\ KindCount(commands, "ArcDraw") = 0) =>
        LET pts == LinearPoints(commands)
        IN  NumPoints = KindCount(commands, "Move") + KindCount(commands, "Draw")
                        + (IF pts[1] # pts[Len(pts)] THEN 1 ELSE 0)

----------------------------------------------------------------------------
(* Properties of parse_gerber and of the whole run *)

BlankLine(l) == \A k \in 1..Len(l) : l[k] \in {" ", "\t"}

CommentLine(l) == Len(l) >= 3 /\ l[1] = "G" /\ l[2] = "0" /\ l[3] = "4"

Meaningful(l) == ~BlankLine(l) /\ ~CommentLine(l)

P11 == [x |-> [m |-> 1, e |-> 0], y |-> [m |-> 1, e |-> 0]]
P21 == [x |-> [m |-> 2, e |-> 0], y |-> [m |-> 1, e |-> 0]]

ExampleCommands ==
    << [kind |-> "FormatSpecification", integer_digits |-> 4, decimal_digits |-> 6],
       [kind |-> "SetUnitsMM"],
       [kind |-> "SetInterpolationMode", mode |-> "Linear"],
       [kind |-> "SelectAperture", code |-> 10],
       [kind |-> "Move", point |-> P11],
       [kind |-> "Draw", point |-> P21],
       [kind |-> "EndOfFile"] >>

Thm_C10 ==
    (/\ entry = "parse"
     /\ commands = ExampleCommands
     /\ thickness = [some |-> TRUE, val |-> [m |-> 16, e |-> 1]]) =>
        /\ (phase = "loop" /\ ci = 7) => outline_points = <<P11, P21>>
        /\ phase \in {"closed", "done"} => outline_points = <<P11, P21, P11>>
        /\ phase = "done" =>
               /\ result = "Ok"
               /\ Len(vertices) = 6
               /\ Len(faces) = 5

Wit_C10 ==
    /\ entry = "parse"
    /\ commands = ExampleCommands
    /\ thickness = [some |-> TRUE, val |-> [m |-> 16, e |-> 1]]
    /\ phase = "done"
    /\ result = "Ok"
    /\ outline_points[3] = commands[5].point

----------------------------------------------------------------------------
(* Properties of parse_gerber *)

\* a step of parse_gerber's loop that consumes a line which is neither blank
\* nor a G04 comment
LineStep ==
    /\ entry = "parse"
    /\ phase = "parse"
    /\ li' = li + 1
    /\ Line # <<>>
    /\ ~StartsWith(Line, <<"G", "0", "4">>)

\* the recognizers in the order of the claim: does the k-th match the line?
Matches(k, line) ==
    CASE k = 1 -> parse_format_spec(line).some
      [] k = 2 -> parse_units_mm(line)
      [] k = 3 -> parse_units_inch(line)
      [] k = 4 -> parse_aperture_definition(line).some
      [] k = 5 -> parse_interpolation_mode(line).some
      [] k = 6 -> parse_begin_region(line)
      [] k = 7 -> parse_end_region(line)
      [] k = 8 -> parse_end_of_file(line)
      [] k = 9 -> parse_aperture_selection(line).some
      [] k = 10 -> parse_draw_command(line, parser_x, parser_y, integer_digits,
                                      decimal_digits, current_interpolation).cmd.some

\* what the k-th recognizer makes of the line
Emitted(k, line) ==
    CASE k = 1 -> FormatSpecification(parse_format_spec(line).val[1],
                                      parse_format_spec(line).val[2])
      [] k = 2 -> SetUnitsMM
      [] k = 3 -> SetUnitsInch
      [] k = 4 -> parse_aperture_definition(line).val
      [] k = 5 -> SetInterpolationMode(parse_interpolation_mode(line).val)
      [] k = 6 -> BeginRegion
      [] k = 7 -> EndRegion
      [] k = 8 -> EndOfFile
      [] k = 9 -> parse_aperture_selection(line).val
      [] k = 10 -> parse_draw_command(line, parser_x, parser_y, integer_digits,
                                      decimal_digits, current_interpolation).cmd.val

\* the first recognizer of the order that matches, 0 if none does
FirstMatch(line) ==
    IF \E k \in 1..10 : Matches(k, line)
    THEN CHOOSE k \in 1..10 : Matches(k, line) /\ \A h \in 1..(k - 1) : ~Matches(h, line)
    ELSE 0

ModeLineWithDraw(line) ==
    /\ parse_interpolation_mode(line).some
    /\ Contains(line, <<"X">>)
    /\ Contains(line, <<"D", "0", "1">>)

\* C11: every line that is neither blank nor a comment is handled by the
\* first recognizer that matches in the order format-spec, units-mm,
\* units-inch, aperture-definition, interpolation-mode, begin-region,
\* end-region, end-of-file, aperture-selection, draw: the output grows by
\* that recognizer's command and by nothing else (so commands keep the order
\* of their lines), and a line taken by one of the first nine recognizers
\* leaves the current position alone; a G01/G02/G03 line that also carries
\* X and D01 emits only SetInterpolationMode.
Thm_C11 ==
    [][LineStep =>
          LET k == FirstMatch(Line) IN
          /\ commands' = IF k = 0 THEN commands ELSE Append(commands, Emitted(k, Line))
          /\ k \in 1..9 => (parser_x' = parser_x /\ parser_y' = parser_y)
          /\ ModeLineWithDraw(Line) =>
                 /\ commands' = Append(commands,
                        SetInterpolationMode(parse_interpolation_mode(Line).val))
                 /\ parser_x' = parser_x
                 /\ parser_y' = parser_y]_vars

Wit_C11 ==
    /\ entry = "parse"
    /\ li = 2
    /\ ModeLineWithDraw(content[1])
    /\ content[2] = <<"D", "1", "0", "*">>
    /\ commands = <<SetInterpolationMode("Linear"), SelectAperture(10)>>
    /\ parser_x = Zero
    /\ parser_y = Zero

\* lines the format-spec or aperture-definition recognizer rejects although
\* they carry its prefix, coordinates that do not decode, unknown tokens
Malformed(line) ==
    \/ StartsWith(line, <<"%", "F", "S", "L", "A", "X">>) /\ ~parse_format_spec(line).some
    \/ StartsWith(line, <<"%", "A", "D", "D">>) /\ ~parse_aperture_definition(line).some
    \/ \E letter \in {"X", "Y", "I", "J"} :
           Find(line, letter).some /\ ~Field(line, letter, 2, 4).some
    \/ FirstMatch(line) = 0

ReachesDraw(line) == \A k \in 1..9 : ~Matches(k, line)

\* a line step on which parse_draw_command gets past its '*' test
DrawStep == LineStep /\ ReachesDraw(Line) /\ EndsWith(Line, <<"*">>)

\* the value the line gives for an axis, decoded in the format now in force
Given(letter) == Field(Line, letter, integer_digits, decimal_digits)

LastCommand(cmds) == cmds[Len(cmds)]

PointOf(cmd) == IF cmd.kind = "ArcDraw" THEN cmd.end_point ELSE cmd.point

Circular == {"ClockwiseCircular", "CounterClockwiseCircular"}

\* C13: a parse starts at (0,0), format {2,4}, mode Linear; the position
\* changes only on a line that reaches the draw recognizer and only in the
\* axes that line gives, so that a Move/Draw/Flash/ArcDraw carries, for an
\* axis its line does not give, the value an earlier line set last, or 0.
Thm_C13 ==
    /\ []((entry = "parse" /\ li = 0) =>
             /\ parser_x = Zero /\ parser_y = Zero
             /\ integer_digits = 2 /\ decimal_digits = 4
             /\ current_interpolation = "Linear")
    /\ [][~DrawStep => (parser_x' = parser_x /\ parser_y' = parser_y)]_vars
    /\ [][DrawStep =>
             /\ parser_x' = IF Given("X").some THEN Given("X").val ELSE parser_x
             /\ parser_y' = IF Given("Y").some THEN Given("Y").val ELSE parser_y
             /\ Len(commands') > Len(commands) =>
                    PointOf(LastCommand(commands')) = Point(parser_x', parser_y')]_vars

Wit_C13 ==
    /\ entry = "parse"
    /\ li = 2
    /\ content[1] = <<"Y", "2", "0", "0", "0", "0", "D", "0", "2", "*">>
    /\ content[2] = <<"X", "1", "0", "0", "0", "0", "D", "0", "1", "*">>
    /\ commands = <<Move(Point(Zero, Int2Num(2))), Draw(Point(One, Int2Num(2)))>>

\* C14: a D01 line that reaches the draw recognizer yields ArcDraw with the
\* updated position as end point and (I,J) as centre offset exactly when the
\* parser's mode is one of the two circular modes and the line's I and J
\* both decode; otherwise it yields Draw to the updated position.
Thm_C14 ==
    [][(DrawStep /\ Contains(Line, <<"D", "0", "1">>)) =>
          commands' = Append(commands,
              IF current_interpolation \in Circular /\ Given("I").some /\ Given("J").some
              THEN ArcDraw(Point(parser_x', parser_y'),
                           Point(Given("I").val, Given("J").val))
              ELSE Draw(Point(parser_x', parser_y')))]_vars

Wit_C14 ==
    /\ entry = "parse"
    /\ li = 3
    /\ commands = <<SetInterpolationMode("CounterClockwiseCircular"),
                    ArcDraw(Point(One, Int2Num(2)), Point(Zero, One)),
                    Draw(Point(Int2Num(2), One))>>
    /\ Find(Trim(content[3]), "I").some
    /\ ~Find(Trim(content[3]), "J").some

\* the operation code of a line: the number written after its first 'D',
\* -1 if there is none
OpCode(line) ==
    LET pos == Find(line, "D") IN
    IF ~pos.some THEN -1
    ELSE LET rest == Slice(line, pos.val + 1, Len(line))
             n == IF \E k \in 1..Len(rest) : rest[k] \notin Digit
                  THEN (CHOOSE k \in 1..Len(rest) :
                            rest[k] \notin Digit /\ \A h \in 1..(k - 1) : rest[h] \in Digit) - 1
                  ELSE Len(rest)
             digits == SubSeq(rest, 1, n)
         IN  IF digits = <<>> \/ OverflowsU32(digits) THEN -1 ELSE DigitsVal(digits)

\* C15 (as claimed): a '*'-terminated line that reaches the draw recognizer
\* is classified by its operation code alone: code 1 gives Draw or ArcDraw,
\* 2 gives Move, 3 gives Flash, and any other code (D10..D39 after
\* coordinates, or no D code) emits nothing.
Cex_C15 ==
    [][DrawStep =>
          LET op == OpCode(Line)
              kinds == CASE op = 1 -> {"Draw", "ArcDraw"}
                         [] op = 2 -> {"Move"}
                         [] op = 3 -> {"Flash"}
                         [] OTHER -> {}
          IN  IF kinds = {} THEN commands' = commands
              ELSE /\ Len(commands') = Len(commands) + 1
                   /\ LastCommand(commands').kind \in kinds]_vars

\* C16: the format changes only on a line the format-spec recognizer takes,
\* and then to the two digits of its X pair; a coordinate is decoded in the
\* format in force when its line is processed; commands already emitted
\* never change.
Thm_C16 ==
    /\ [][(integer_digits' # integer_digits \/ decimal_digits' # decimal_digits) =>
             (LineStep /\ Matches(1, Line))]_vars
    /\ [][(LineStep /\ Matches(1, Line)) =>
             /\ integer_digits' = DigitVal(Line[7])
             /\ decimal_digits' = DigitVal(Line[8])]_vars
    /\ [][DrawStep =>
             \A letter \in {"X", "Y"} :
                 LET pos == Find(Line, letter)
                     token == Slice(Line, pos.val + 1, find_next_letter(Line, pos.val + 1))
                     value == parse_coordinate(token, integer_digits, decimal_digits)
                 IN  (pos.some /\ value.some) =>
                         (IF letter = "X" THEN parser_x' ELSE parser_y') = value.val]_vars
    /\ [][SubSeq(commands', 1, Len(commands)) = commands]_vars

Wit_C16 ==
    /\ entry = "parse"
    /\ li = 3
    /\ integer_digits = 3
    /\ decimal_digits = 3
    /\ content[1] = content[3]
    /\ commands = <<Draw(Point(One, Zero)), FormatSpecification(3, 3),
                    Draw(Point(Int2Num(10), Zero))>>

\* a line made of 'D', digits and '*'
CodeLine(line) ==
    /\ Len(line) >= 3
    /\ Head(line) = "D"
    /\ line[Len(line)] = "*"
    /\ IsDigits(SubSeq(line, 2, Len(line) - 1))

CodeDigits(line) == StripZeros(SubSeq(line, 2, Len(line) - 1))

SelectsAperture(digits) ==
    /\ Len(commands') = Len(commands) + 1
    /\ LastCommand(commands').kind = "SelectAperture"
    /\ ~OverflowsU32(digits) => LastCommand(commands').code = DigitsVal(digits)

\* what a code line with n < 10 does: D01*, D02*, D03* alone give Draw,
\* Move, Flash at the current position, and no code below 10 selects
BelowTen(digits) ==
    /\ parser_x' = parser_x
    /\ parser_y' = parser_y
    /\ digits = <<"1">> => commands' = Append(commands, Draw(Point(parser_x, parser_y)))
    /\ digits = <<"2">> => commands' = Append(commands, Move(Point(parser_x, parser_y)))
    /\ digits = <<"3">> => commands' = Append(commands, Flash(Point(parser_x, parser_y)))
    /\ Len(commands') > Len(commands) => LastCommand(commands').kind # "SelectAperture"

\* C18 (as claimed): a line D<n>* yields SelectAperture{n} if and only if
\* n >= 10, for every decimal number n.
Cex_C18 ==
    [][(LineStep /\ CodeLine(Line)) =>
          IF Len(CodeDigits(Line)) >= 2
          THEN SelectsAperture(CodeDigits(Line))
          ELSE BelowTen(CodeDigits(Line))]_vars

\* C18 (amended): a line D<n>* yields SelectAperture{n} if and only if
\* 10 <= n <= 4294967295 (n fits the u32 code); for n < 10 it falls through
\* to the draw recognizer, so D01*, D02*, D03* alone yield Draw, Move, Flash
\* at the current position; for larger n it never yields SelectAperture.
Thm_C18 ==
    [][(LineStep /\ CodeLine(Line)) =>
          IF Len(CodeDigits(Line)) >= 2 /\ ~OverflowsU32(CodeDigits(Line))
          THEN SelectsAperture(CodeDigits(Line))
          ELSE IF Len(CodeDigits(Line)) < 2
          THEN BelowTen(CodeDigits(Line))
          ELSE Len(commands') > Len(commands) =>
                   LastCommand(commands').kind # "SelectAperture"]_vars

Wit_C18 ==
    /\ entry = "parse"
    /\ li = 2
    /\ content[1] = <<"D", "1", "0", "*">>
    /\ content[2] = <<"D", "0", "1", "*">>
    /\ commands = <<SelectAperture(10), Draw(Point(Zero, Zero))>>

\* C19: in what parse_gerber has emitted, each ArcDraw comes after a
\* SetInterpolationMode to a circular mode with no SetInterpolationMode(Linear)
\* between the two; a text without a line starting with G02 or G03 gives no
\* ArcDraw.
Thm_C19 ==
    entry = "parse" =>
        /\ \A k \in 1..Len(commands) :
               commands[k].kind = "ArcDraw" =>
                   \E j \in 1..(k - 1) :
                       /\ commands[j].kind = "SetInterpolationMode"
                       /\ commands[j].mode \in Circular
                       /\ \A h \in (j + 1)..(k - 1) :
                              ~(commands[h].kind = "SetInterpolationMode"
                                /\ commands[h].mode = "Linear")
        /\ (\A n \in 1..Len(content) :
                /\ ~StartsWith(Trim(content[n]), <<"G", "0", "2">>)
                /\ ~StartsWith(Trim(content[n]), <<"G", "0", "3">>)) =>
               KindCount(commands, "ArcDraw") = 0

Wit_C19 ==
    /\ entry = "parse"
    /\ parse_result = "Ok"
    /\ content = RegionText
    /\ commands[6] = SetInterpolationMode("Linear")
    /\ commands[8] = SetInterpolationMode("CounterClockwiseCircular")
    /\ commands[9].kind = "ArcDraw"
    /\ KindCount(commands, "ArcDraw") = 1

----------------------------------------------------------------------------
(* Properties of parse_coordinate *)

TokenNegative == raw_token # <<>> /\ Head(raw_token) = "-"

TokenDigits == IF TokenNegative THEN Tail(raw_token) ELSE raw_token

SignificantDigits == Len(StripZeros(TokenDigits))

\* a * 10^n
BigTimesPow10(a, n) ==
    IF a = <<>> THEN <<>>
    ELSE BigMulAdd([i \in 1..(Len(a) + n \div 4) |->
                       IF i <= n \div 4 THEN 0 ELSE a[i - n \div 4]],
                   Pow10(n % 4), 0)

BigOfNat(n) == BigTrim(<<n % BigBase, (n \div BigBase) % BigBase, n \div (BigBase * BigBase)>>)

\* round(num / 2^k) for k > 0, ties to even
RoundShift(num, k) ==
    LET den == BigTimesPow2(<<1>>, k)
        d == BigDivide(num, den, 9, <<>>)
        twice == BigMulAdd(d.rem, 2, 0)
    IN  IF BigLess(den, twice) \/ (twice = den /\ d.q[1] % 2 = 1)
        THEN BigMulAdd(d.q, 1, 1)
        ELSE d.q

\* The value written with dec_digits decimals and the decimal point left out:
\* round(|value| * 10^dec_digits) and the sign.
EncodeFixed(value, dec_digits) ==
    IF "q" \in DOMAIN value
    THEN LET scaled == BigTimesPow10(value.q, dec_digits)
         IN  [neg |-> value.neg,
              mag |-> IF value.k > 0 THEN RoundShift(scaled, value.k)
                      ELSE BigTimesPow2(scaled, -value.k)]
    ELSE [neg |-> value.m < 0,
          mag |-> BigTimesPow10(BigOfNat(IF value.m < 0 THEN -value.m ELSE value.m),
                                dec_digits - value.e)]

\* the decoded value, written again with the same widths, has the digits (and
\* the sign) of the token, leading zeros apart
RoundTrips ==
    /\ decoded # <<>>
    /\ decoded[1].some
    /\ LET enc == EncodeFixed(decoded[1].val, decimal_digits)
       IN  /\ enc.mag = BigOfDigits(StripZeros(TokenDigits))
           /\ (enc.mag # <<>> => enc.neg = TokenNegative)

\* C17 as stated: every token without a decimal point, in every format, decodes
\* to a value whose fixed-point re-encoding with the same widths is the token's
\* digit string up to leading zeros.  Violated: 9007199254740993 with no
\* decimals decodes to the f64 9007199254740992.
Cex_C17 == (entry = "coord" /\ decoded # <<>>) => RoundTrips

\* C17, amended: for every token of at most 15 significant digits, in every
\* format, the result is the one value parse_coordinate computes from the
\* token and the format, and its re-encoding with the same widths is the
\* token's digit string up to leading zeros.
Thm_C17 ==
    (entry = "coord" /\ decoded # <<>> /\ SignificantDigits <= 15) =>
        /\ decoded[1] = parse_coordinate(raw_token, integer_digits, decimal_digits)
        /\ RoundTrips

\* a negative 15-digit token decoded with decimals: rounded to an f64 with
\* 53-bit mantissa, and back to its digits
Wit_C17 ==
    /\ entry = "coord"
    /\ decoded # <<>>
    /\ TokenNegative
    /\ SignificantDigits = 15
    /\ decimal_digits > 0
    /\ decoded[1].some
    /\ "q" \in DOMAIN decoded[1].val
    /\ RoundTrips


----------------------------------------------------------------------------
(* Properties of process_gerber_files *)

OptionalSlots ==
    {"top_copper_file", "bottom_copper_file", "top_silk_file", "bottom_silk_file"}

\* an optional layer whose file was found but could not be read
FailedLayers ==
    {slot \in OptionalSlots : layer_files[slot].some /\ ~layer_files[slot].val.readable}

\* the optional layers whose file was found and read
ReadLayers ==
    {slot \in OptionalSlots : layer_files[slot].some /\ layer_files[slot].val.readable}

\* C20: process_gerber_files returns Err only when the input directory is
\* missing or unreadable, no edge-cuts file was found, the edge-cuts file could
\* not be read, or build_edge_cuts_mesh failed on its commands; an Err is
\* returned before any mesh is in the model, so no copper or silkscreen file
\* causes it; and when Ok is returned the model holds the edge-cuts mesh and
\* one mesh for each optional layer that was read, a layer whose file could
\* not be read being left out.
Thm_C20 ==
    entry = "process" =>
        /\ process_result = "Err" =>
               /\ meshes = <<>>
               /\ \/ input_dir # "dir"
                  \/ ~layer_files.edge_cuts_file.some
                  \/ ~layer_files.edge_cuts_file.val.readable
                  \/ result = "Err"
        /\ process_result = "Ok" =>
               /\ result = "Ok"
               /\ meshes[1] = Mesh(vertices, faces, "EdgeCuts")
               /\ Len(meshes) = 1 + Cardinality(ReadLayers)
               /\ \A k \in 2..Len(meshes) : meshes[k].layer_type \in {"Copper", "Silkscreen"}

\* C20 witness: Ok is returned for a directory with a copper or silkscreen
\* file that could not be read, and the model has only the other meshes
Wit_C20 ==
    /\ entry = "process"
    /\ process_result = "Ok"
    /\ FailedLayers # {}
    /\ Len(meshes) = 1 + Cardinality(ReadLayers)

----------------------------------------------------------------------------
(* Properties of identify_layer_type *)

NameHas(patterns) == \E pat \in patterns : Contains(to_lowercase(file_path), pat)

EdgeNamed == NameHas({<<"e", "d", "g", "e">>, <<"o", "u", "t", "l", "i", "n", "e">>, <<"c", "u", "t", "s">>})

CopperNamed ==
    NameHas({<<"f", ".", "c", "u">>, <<"f", "_", "c", "u">>, <<"t", "o", "p", ".", "c", "u">>,
             <<"b", ".", "c", "u">>, <<"b", "_", "c", "u">>, <<"b", "o", "t", "t", "o", "m", ".", "c", "u">>})

SilkNamed ==
    NameHas({<<"f", ".", "s", "i", "l", "k">>, <<"f", "_", "s", "i", "l", "k">>, <<"t", "o", "p", ".", "s", "i", "l", "k">>,
             <<"b", ".", "s", "i", "l", "k">>, <<"b", "_", "s", "i", "l", "k">>, <<"b", "o", "t", "t", "o", "m", ".", "s", "i", "l", "k">>})

\* the layer type of the mesh process_gerber_files builds from a slot
SlotLayerType(slot) ==
    CASE slot = "edge_cuts_file" -> "EdgeCuts"
      [] slot \in {"top_copper_file", "bottom_copper_file"} -> "Copper"
      [] slot \in {"top_silk_file", "bottom_silk_file"} -> "Silkscreen"

\* C21: identify_layer_type gives EdgeCuts for a lower-cased name with
\* 'edge', 'outline' or 'cuts', else Copper for one with a copper pattern,
\* else Silkscreen for one with a silkscreen pattern, else EdgeCuts; and for
\* every name the first pass of process_gerber_files assigns to a layer it
\* gives the layer type of that layer.
Thm_C21 ==
    (entry = "layer" /\ identified # <<>>) =>
        /\ identified[1] = IF EdgeNamed THEN "EdgeCuts"
                           ELSE IF CopperNamed THEN "Copper"
                           ELSE IF SilkNamed THEN "Silkscreen"
                           ELSE "EdgeCuts"
        /\ LayerSlot(file_path) # "none" =>
               identified[1] = SlotLayerType(LayerSlot(file_path))

\* C21 witness: a name with an edge-cuts and a copper pattern, assigned to
\* the edge-cuts layer by the first pass, is identified as EdgeCuts
Wit_C21 ==
    /\ entry = "layer"
    /\ identified = <<"EdgeCuts">>
    /\ EdgeNamed
    /\ CopperNamed
    /\ LayerSlot(file_path) = "edge_cuts_file"

\* the f64 of the token's signed integer value divided by 10^decimal_digits
TokenValue ==
    LET Valued(digits) ==
            IF Len(digits) <= 9
            THEN Norm((IF TokenNegative THEN -1 ELSE 1) * DigitsVal(digits), decimal_digits)
            ELSE [neg |-> TokenNegative]
                 @@ RoundToF64(BigOfDigits(digits), BigTimesPow10(<<1>>, decimal_digits))
    IN  Valued(StripZeros(TokenDigits))

\* C22: for a token of digits with an optional leading '-' and a format with
\* integer_digits + decimal_digits >= 1, parse_coordinate returns the token's
\* signed integer value divided by 10^decimal_digits, whatever integer_digits
\* is and whether the token is shorter or longer than the total digit count.
Thm_C22 ==
    (entry = "coord" /\ decoded # <<>> /\ integer_digits + decimal_digits >= 1) =>
        decoded[1] = Some(TokenValue)

\* C22 witness: a token longer than the total digit count, decoded in a format
\* with integer and decimal digits, has the value of its digits divided by
\* 10^decimal_digits
Wit_C22 ==
    /\ entry = "coord"
    /\ decoded = <<Some(TokenValue)>>
    /\ integer_digits > 0
    /\ decimal_digits > 0
    /\ Len(TokenDigits) > integer_digits + decimal_digits
    /\ TokenNegative

----------------------------------------------------------------------------
(* Properties of the coordinate fields of a draw line *)

\* the text between an axis letter of the line and the next letter
FieldText(letter) ==
    Slice(Line, Find(Line, letter).val + 1,
          find_next_letter(Line, Find(Line, letter).val + 1))

\* the line has the letter, with no value or with one that does not decode
Undecoded(letter) ==
    /\ Find(Line, letter).some
    /\ (FieldText(letter) = <<>> \/ ~Given(letter).some)

\* C23 as stated: on a draw line, an X or Y field with an empty value or a
\* value that does not decode leaves its axis at the previous value, while
\* the fields that decode are applied and a line with a D01, D02 or D03 code
\* still emits its command.  Violated: after X10000Y10000* the line
\* XY20000D01* emits Draw{(0, 2)}; the empty X value decodes to 0.
Cex_C23 ==
    [][DrawStep =>
          /\ Undecoded("X") => parser_x' = parser_x
          /\ Undecoded("Y") => parser_y' = parser_y
          /\ (~Undecoded("X") /\ Given("X").some) => parser_x' = Given("X").val
          /\ (~Undecoded("Y") /\ Given("Y").some) => parser_y' = Given("Y").val
          /\ (\E code \in {<<"D", "0", "1">>, <<"D", "0", "2">>, <<"D", "0", "3">>} :
                  Contains(Line, code)) => Len(commands') = Len(commands) + 1]_vars

----------------------------------------------------------------------------
(* Properties of the arcs of build_edge_cuts_mesh *)

\* the commands the loop at line 261 has processed
Processed == SubSeq(commands, 1, ci)

\* a step of the loop that processes an ArcDraw
ArcStep == phase = "loop" /\ ci' = ci + 1 /\ commands'[ci'].kind = "ArcDraw"

\* C24: each ArcDraw appends exactly 16 points to the outline and then sets
\* the builder's position to the command's end_point, so that before closure
\* the outline has #Move + #Draw + 16 * #ArcDraw points for the commands
\* processed.
Thm_C24 ==
    /\ [][ArcStep =>
             /\ Len(outline_points') = Len(outline_points) + 16
             /\ SubSeq(outline_points', 1, Len(outline_points)) = outline_points
             /\ current_x' = commands'[ci'].end_point.x
             /\ current_y' = commands'[ci'].end_point.y]_vars
    /\ [](phase = "loop" =>
             NumPoints = KindCount(Processed, "Move") + KindCount(Processed, "Draw")
                         + 16 * KindCount(Processed, "ArcDraw"))

\* C24 witness: after a Move and an ArcDraw the outline has 17 points, the
\* position is the arc's end point and the 16th generated point is another
\* point
Wit_C24 ==
    /\ entry = "build"
    /\ phase = "loop"
    /\ ci = 2
    /\ commands[1].kind = "Move"
    /\ commands[2].kind = "ArcDraw"
    /\ NumPoints = 17
    /\ Point(current_x, current_y) = commands[2].end_point
    /\ outline_points[17] # commands[2].end_point

\* the points an ArcStep appends
NewPoints == SubSeq(outline_points', Len(outline_points) + 1, Len(outline_points'))

\* the raw end_angle - start_angle of the arc a generated coordinate lies on,
\* as its sign
RawSweep(c) == AngleDiffSign(c.sv, c.ev)

\* the angle_diff used for the arc a generated coordinate lies on, as its sign
UsedSweep(c) == IF c.turns # 0 THEN c.turns ELSE RawSweep(c)

\* C25: the sweep used for the points of an arc is <= 0 under
\* ClockwiseCircular, a full turn being subtracted exactly when the raw
\* difference is positive, and >= 0 under CounterClockwiseCircular, a full
\* turn being added exactly when the raw difference is negative; a raw
\* difference of 0 stays 0 in both modes and the 16 points are 16 copies of
\* the point at the start angle.
Thm_C25 ==
    [][(ArcStep /\ current_mode \in Circular) =>
          \A k \in 1..POINTS_PER_ARC :
              LET Checked(c) ==
                      /\ c.sv = Vec(Sub(current_x, Add(current_x, commands'[ci'].center_offset.x)),
                                    Sub(current_y, Add(current_y, commands'[ci'].center_offset.y)))
                      /\ current_mode = "ClockwiseCircular" =>
                             /\ UsedSweep(c) <= 0
                             /\ c.turns = (IF RawSweep(c) > 0 THEN -1 ELSE 0)
                      /\ current_mode = "CounterClockwiseCircular" =>
                             /\ UsedSweep(c) >= 0
                             /\ c.turns = (IF RawSweep(c) < 0 THEN 1 ELSE 0)
                      /\ RawSweep(c) = 0 =>
                             /\ c.i = 0
                             /\ NewPoints[k] = NewPoints[1]
                      /\ RawSweep(c) # 0 => c.i = k
              IN  IF IsNum(NewPoints[k].x)
                  THEN NewPoints[k] = Point(current_x, current_y)
                  ELSE Checked(NewPoints[k].x) /\ Checked(NewPoints[k].y)]_vars

\* C25 witness: a clockwise arc of radius 1 whose end point is its start
\* point has been tessellated as 16 copies of one point of sweep 0
Wit_C25 ==
    /\ entry = "build"
    /\ phase = "loop"
    /\ ci = 3
    /\ commands[3].kind = "ArcDraw"
    /\ current_mode = "ClockwiseCircular"
    /\ NumPoints = 17
    /\ outline_points[1] = commands[3].end_point
    /\ ~IsNum(outline_points[17].x)
    /\ outline_points[17].x.i = 0
    /\ \A k \in 2..17 : outline_points[k] = outline_points[2]

(***************************************************************************)
(* Properties of the interpolation mode across parser and builder          *)
(***************************************************************************)

\* The mode a reader of cmds tracks: the mode of the last
\* SetInterpolationMode in cmds, Linear when there is none.
LastMode(cmds) ==
    LET Sets == {k \in 1..Len(cmds) : cmds[k].kind = "SetInterpolationMode"}
    IN  IF Sets = {} THEN "Linear"
        ELSE cmds[CHOOSE k \in Sets : \A j \in Sets : j <= k].mode

\* C26: for a sequence produced by parse_gerber, while parsing the parser's
\* mode is always the mode of the last SetInterpolationMode it has emitted
\* (so the mode in force when a command is emitted is the one a reader of the
\* commands before it tracks), and when the builder processes an ArcDraw its
\* own mode is circular and is that same mode.
Thm_C26 ==
    /\ []((entry = "parse" /\ phase = "parse")
            => current_interpolation = LastMode(commands))
    /\ [][(entry = "parse" /\ ArcStep)
            => /\ current_mode \in Circular
               /\ current_mode = LastMode(SubSeq(commands, 1, ci))]_vars

\* C26 witness: the builder has processed an ArcDraw of a parsed file in
\* counter-clockwise mode, the mode set by the one mode line before it.
Wit_C26 ==
    /\ entry = "parse"
    /\ phase = "loop"
    /\ ci >= 2
    /\ commands[ci].kind = "ArcDraw"
    /\ commands[ci - 1].kind = "SetInterpolationMode"
    /\ current_mode = "CounterClockwiseCircular"
    /\ current_interpolation = "CounterClockwiseCircular"

(***************************************************************************)
(* Properties of the current position across parser and builder            *)
(***************************************************************************)

\* The position a reader of cmds tracks as build_edge_cuts_mesh does: the
\* point of the last Move, Draw or ArcDraw in cmds, the origin when there is
\* none.
TrackedPosition(cmds) ==
    LET Moves == {k \in 1..Len(cmds) : cmds[k].kind \in {"Move", "Draw", "ArcDraw"}}
        last == CHOOSE k \in Moves : \A j \in Moves : j <= k
    IN  IF Moves = {} THEN Point(Zero, Zero)
        ELSE IF cmds[last].kind = "ArcDraw" THEN cmds[last].end_point
        ELSE cmds[last].point

\* the line being parsed emits an ArcDraw
EmitsArc ==
    /\ DrawStep
    /\ Len(commands') = Len(commands) + 1
    /\ LastCommand(commands').kind = "ArcDraw"

\* C27: for a sequence produced by parse_gerber, the position the builder
\* has when it processes an ArcDraw is the one a reader of the commands
\* before it tracks, and that is the parser's position immediately before the
\* line that emitted the ArcDraw: the two positions stay equal across Flash
\* commands and coordinate lines that emit nothing.
Cex_C27 ==
    /\ [][(entry = "parse" /\ ArcStep)
            => Point(current_x, current_y) = TrackedPosition(SubSeq(commands, 1, ci))]_vars
    /\ [][EmitsArc => Point(parser_x, parser_y) = TrackedPosition(commands)]_vars

(***************************************************************************)
(* Properties of the lines that emit nothing                               *)
(***************************************************************************)

\* the line being parsed adds no command to the output
SilentStep ==
    /\ entry = "parse"
    /\ phase = "parse"
    /\ li' = li + 1
    /\ commands' = commands

\* C28: a line that adds no command (blank, comment, unrecognized, malformed
\* format or aperture line, '*'-terminated line without a D01/D02/D03 code)
\* leaves the position, the format and the interpolation mode unchanged.
Cex_C28 ==
    [][SilentStep => UNCHANGED <<parser_x, parser_y, integer_digits,
                                 decimal_digits, current_interpolation>>]_vars

(***************************************************************************)
(* Properties of export_to_obj                                             *)
(***************************************************************************)

\* the sum of the vertex counts of the meshes before the m-th
RECURSIVE VerticesBefore(_)
VerticesBefore(m) ==
    IF m <= 1 THEN 0
    ELSE VerticesBefore(m - 1) + Len(meshes[m - 1].vertices)

\* the positions in the file of the lines of one kind
LinesOf(kind) == {k \in 1..Len(obj_lines) : obj_lines[k].kind = kind}

\* the mesh a line of the file belongs to: the number of "Layer type"
\* headings up to it
BlockOf(k) == Cardinality({j \in LinesOf("layer") : j <= k})

\* the n-th smallest element of a set of numbers
Nth(S, n) == CHOOSE k \in S : Cardinality({j \in S : j < k}) = n - 1

\* the f lines written for the m-th mesh, and its faces of three or more
\* indices
FaceLinesOf(m) == {k \in LinesOf("f") : BlockOf(k) = m}
LongFaces(m) == {f \in 1..Len(meshes[m].faces) : Len(meshes[m].faces[f]) >= 3}

\* every face names vertices of its own mesh
WellFormed ==
    \A m \in 1..Len(meshes) : \A f \in 1..Len(meshes[m].faces) :
        \A n \in 1..Len(meshes[m].faces[f]) :
            meshes[m].faces[f][n] < Len(meshes[m].vertices)

\* C29: the f lines written for the m-th mesh are its faces of three or more
\* indices, in order, each index i written as 1 + (vertex counts of the
\* earlier meshes) + i for the vertex and for the normal; faces of fewer than
\* three indices are not written; and in a model whose faces name vertices of
\* their own mesh every written index lies in 1..number of v lines written
\* and names a v line and a vn line of the same mesh.
Thm_C29 ==
    entry = "export" =>
        /\ \A m \in 1..mi :
            /\ Cardinality(FaceLinesOf(m)) = Cardinality(LongFaces(m))
            /\ \A n \in 1..Cardinality(LongFaces(m)) :
                LET line == obj_lines[Nth(FaceLinesOf(m), n)]
                    face == meshes[m].faces[Nth(LongFaces(m), n)]
                IN  /\ Len(line.refs) = Len(face)
                    /\ \A j \in 1..Len(face) :
                        /\ line.refs[j].v = 1 + VerticesBefore(m) + face[j]
                        /\ line.refs[j].vn = line.refs[j].v
        /\ WellFormed =>
            \A k \in LinesOf("f") : \A j \in 1..Len(obj_lines[k].refs) :
                LET idx == obj_lines[k].refs[j].v
                IN  /\ idx \in 1..Cardinality(LinesOf("v"))
                    /\ BlockOf(Nth(LinesOf("v"), idx)) = BlockOf(k)
                    /\ BlockOf(Nth(LinesOf("vn"), idx)) = BlockOf(k)

\* C29 witness: a model of three meshes was exported, its faces naming
\* vertices of their own mesh; the second mesh has a face of fewer than three
\* indices, and the third has a face written after vertices of earlier
\* meshes.
Wit_C29 ==
    /\ entry = "export"
    /\ export_result = "Ok"
    /\ Len(meshes) = 3
    /\ WellFormed
    /\ meshes[1].vertices # <<>>
    /\ \E f \in 1..Len(meshes[2].faces) : Len(meshes[2].faces[f]) < 3
    /\ LongFaces(2) # {}
    /\ FaceLinesOf(3) # {}
    /\ \E k \in FaceLinesOf(3) : obj_lines[k].refs[1].v > Len(meshes[3].vertices)

(***************************************************************************)
(* Properties of the order of the meshes of process_gerber_files           *)
(***************************************************************************)

\* the place of a mesh in the fixed order: 0 for the edge-cuts mesh, 1 to 4
\* for top copper, bottom copper, top silkscreen and bottom silkscreen as
\* their builders make them, 5 for anything else
LayerRank(mesh) ==
    IF mesh.layer_type = "EdgeCuts" THEN 0
    ELSE IF mesh = build_copper_mesh(TRUE, thickness).val THEN 1
    ELSE IF mesh = build_copper_mesh(FALSE, thickness).val THEN 2
    ELSE IF mesh = build_silkscreen_mesh(TRUE, thickness).val THEN 3
    ELSE IF mesh = build_silkscreen_mesh(FALSE, thickness).val THEN 4
    ELSE 5

\* the directory entries that match the pattern of a layer
Matching(slot) == {k \in 1..Len(entries) : entries[k].ok /\ LayerSlot(entries[k].name) = slot}

\* C30: when process_gerber_files returns Ok, the first mesh of the model is
\* the EdgeCuts mesh, the meshes after it are top copper, bottom copper, top
\* silkscreen and bottom silkscreen in that order, each at most once, and the
\* model holds at most 5 meshes however many files match a layer pattern.
Thm_C30 ==
    (entry = "process" /\ process_result = "Ok") =>
        /\ meshes # <<>>
        /\ meshes[1] = Mesh(vertices, faces, "EdgeCuts")
        /\ \A k \in 2..Len(meshes) : LayerRank(meshes[k]) \in 1..4
        /\ \A j, k \in 1..Len(meshes) : j < k => LayerRank(meshes[j]) < LayerRank(meshes[k])
        /\ Len(meshes) <= 5

\* C30 witness: Ok is returned with all five meshes for a directory whose
\* entries are not in the order of the layers.
Wit_C30 ==
    /\ entry = "process"
    /\ process_result = "Ok"
    /\ Len(meshes) = 5
    /\ Matching("top_copper_file") # {}
    /\ \E k \in Matching("edge_cuts_file") : \E j \in Matching("top_copper_file") : j < k

====
